---------------------------- MODULE Spec2Model ----------------------------
(***************************************************************************)
(* Model of the persona-driven document intelligence pipeline              *)
(* (DocumentIntelligenceService.process_document_collection and the        *)
(* components it drives: TextAnalyzer, HeadingDetector, RelevanceAnalyzer, *)
(* SectionExtractor, SubSectionAnalyzer).                                  *)
(*                                                                         *)
(* Text is modelled as TLA+ strings, character by character: the Python    *)
(* string methods and the regular expressions of the source are operators  *)
(* over the characters (Len, SubSeq and \o act on strings in TLC).         *)
(*                                                                         *)
(* Numbers: relevance scores are exact rationals [n, d]; the heading score *)
(* is a fixed-point number in hundredths (its font-size term divides by a  *)
(* standard deviation, an irrational in general, rounded down here) and a  *)
(* heading's confidence is a fixed-point number in thousandths.            *)
(***************************************************************************)
EXTENDS Integers, Sequences, FiniteSets, TLC

\* a list built element by element, as the tuple of its elements
List(f) == f \o << >>

(***************************************************************************)
(* Characters and Python string methods                                    *)
(***************************************************************************)
Digits == "0123456789"
Uppers == "ABCDEFGHIJKLMNOPQRSTUVWXYZ"
Lowers == "abcdefghijklmnopqrstuvwxyz"

Char(s, i) == SubSeq(s, i, i)

\* the characters of a string, as a set
CharSet(s) == {Char(s, i) : i \in 1..Len(s)}
DigitChars == CharSet(Digits)
UpperChars == CharSet(Uppers)
LowerChars == CharSet(Lowers)
WordChars == DigitChars \cup UpperChars \cup LowerChars \cup {"_"}

IsDigit(c) == c \in DigitChars
IsUpper(c) == c \in UpperChars
IsLower(c) == c \in LowerChars
IsSpace(c) == c \in {" ", "\n", "\t"}
\* \w of the re module, over the characters the model's texts use
IsWordChar(c) == c \in WordChars

\* F(v) for the one element v of S, and F(v, w) for the elements of S and T:
\* v and w are computed before F is applied to them (an argument of an
\* operator is otherwise computed where the operator first uses it, inside
\* whatever the operator is computing by then)
Of(F(_), S) == CHOOSE y \in {F(v) : v \in S} : TRUE
Of2(F(_, _), S, T) == CHOOSE y \in {F(v, w) : v \in S, w \in T} : TRUE

MinOf(a, b) == IF a <= b THEN a ELSE b
MaxOf(a, b) == IF a >= b THEN a ELSE b

\* the letter of one alphabet at the place c has in the other
CaseTable(from, to) ==
    [c \in CharSet(from) |-> Char(to, CHOOSE k \in 1..Len(from) : Char(from, k) = c)]
LowerOf == CaseTable(Uppers, Lowers)
UpperOf == CaseTable(Lowers, Uppers)

LowerChar(c) == IF IsUpper(c) THEN LowerOf[c] ELSE c

UpperChar(c) == IF IsLower(c) THEN UpperOf[c] ELSE c

\* the characters lo..hi of s in lower case, by quarters so that the depth
\* stays logarithmic
RECURSIVE LowerIn(_, _, _)
LowerIn(s, lo, hi) ==
    CASE lo > hi -> ""
      [] lo = hi -> LowerChar(Char(s, lo))
      [] OTHER   ->
          (LowerIn(s, lo, lo + (hi - lo) \div 4)
           \o LowerIn(s, lo + (hi - lo) \div 4 + 1, lo + (hi - lo) \div 2))
          \o (LowerIn(s, lo + (hi - lo) \div 2 + 1, hi - (hi - lo) \div 4)
              \o LowerIn(s, hi - (hi - lo) \div 4 + 1, hi))

\* str.lower()
Lower(s) == LowerIn(s, 1, Len(s))

\* str.isupper(): at least one cased character and no lowercase one
IsUpperStr(s) ==
    /\ \E i \in 1..Len(s) : IsUpper(Char(s, i))
    /\ \A i \in 1..Len(s) : ~IsLower(Char(s, i))

\* str.strip()
Strip(s) ==
    LET keep == {i \in 1..Len(s) : ~IsSpace(Char(s, i))}
    IN  IF keep = {} THEN ""
        ELSE LET lo == CHOOSE i \in keep : \A j \in keep : i <= j
                 hi == CHOOSE i \in keep : \A j \in keep : i >= j
             IN  SubSeq(s, lo, hi)

\* `sub in s`
Contains(sub, s) ==
    \E i \in 1..(Len(s) - Len(sub) + 1) : SubSeq(s, i, i + Len(sub) - 1) = sub

StartsWith(s, p) == Len(s) >= Len(p) /\ SubSeq(s, 1, Len(p)) = p
EndsWith(s, p) == Len(s) >= Len(p) /\ SubSeq(s, Len(s) - Len(p) + 1, Len(s)) = p

\* the positions where a run of characters satisfying the class starts
SplitStarts(s) ==
    {i \in 1..Len(s) : /\ ~IsSpace(Char(s, i))
                       /\ (i = 1 \/ IsSpace(Char(s, i - 1)))}

RECURSIVE SplitEnd(_, _)
SplitEnd(s, i) ==
    IF i >= Len(s) \/ IsSpace(Char(s, i + 1)) THEN i ELSE SplitEnd(s, i + 1)

\* len(s.split())
WordCount(s) == Cardinality(SplitStarts(s))

\* the least element of a set of positive integers, or 0 when it is empty
FirstIn(S) == IF S = {} THEN 0 ELSE CHOOSE k \in S : \A j \in S : k <= j
\* the greatest element, or 0
LastIn(S) == IF S = {} THEN 0 ELSE CHOOSE k \in S : \A j \in S : k >= j

\* a finite set of positive integers as an increasing sequence: the numbers up
\* to its greatest element that are in it
SortedSeq(S) == SelectSeq([i \in 1..LastIn(S) |-> i], LAMBDA i : i \in S)

\* s.split(): the whitespace-separated words, in order
Split(s) ==
    LET st == SortedSeq(SplitStarts(s))
    IN  List([k \in 1..Len(st) |-> SubSeq(s, st[k], SplitEnd(s, st[k]))])

\* ' '.join(parts)
RECURSIVE JoinRange(_, _, _)
JoinRange(parts, lo, hi) ==
    IF lo = hi THEN parts[lo]
    ELSE JoinRange(parts, lo, (lo + hi) \div 2)
         \o " " \o JoinRange(parts, (lo + hi) \div 2 + 1, hi)

JoinSp(parts) == IF Len(parts) = 0 THEN "" ELSE JoinRange(parts, 1, Len(parts))

\* set(re.findall(r'\b\w+\b', s)): the maximal runs of word characters
WordStarts(s) ==
    {i \in 1..Len(s) : /\ IsWordChar(Char(s, i))
                       /\ (i = 1 \/ ~IsWordChar(Char(s, i - 1)))}

RECURSIVE WordEnd(_, _)
WordEnd(s, i) ==
    IF i >= Len(s) \/ ~IsWordChar(Char(s, i + 1)) THEN i ELSE WordEnd(s, i + 1)

WordSet(s) == {SubSeq(s, i, WordEnd(s, i)) : i \in WordStarts(s)}

\* re.findall(r'\b\w+\b', s) as a list
WordList(s) ==
    LET st == SortedSeq(WordStarts(s))
    IN  List([k \in 1..Len(st) |-> SubSeq(s, st[k], WordEnd(s, st[k]))])

\* s repeated n times
RECURSIVE Rep(_, _)
Rep(s, n) ==
    IF n <= 0 THEN ""
    ELSE IF n = 1 THEN s
    ELSE Rep(s, n \div 2) \o Rep(s, n - n \div 2)


(***************************************************************************)
(* Regular expressions.  Every pattern of the source is a sequence of      *)
(* character classes with a repetition range, anchored at the start; a     *)
(* pattern is a sequence of items <<class, lo, hi>>.  Matching is greedy   *)
(* with backtracking, as in Python's re module.                            *)
(***************************************************************************)
Inf == 100000

ClassHas(cls, ch, ic) ==
    CASE cls = "\\d"    -> IsDigit(ch)
      [] cls = "\\s"    -> IsSpace(ch)
      [] cls = "\\w"    -> IsWordChar(ch)
      [] cls = "[A-Z]"  -> IsUpper(ch) \/ (ic /\ IsLower(ch))
      [] cls = "[a-z]"  -> IsLower(ch) \/ (ic /\ IsUpper(ch))
      [] cls = "[IVX]"  -> ch \in {"I", "V", "X"} \/ (ic /\ ch \in {"i", "v", "x"})
      [] cls = "[/-]"   -> ch \in {"/", "-"}
      [] cls = "[.!?]"  -> ch \in {".", "!", "?"}
      \* the bullet characters U+2022, U+25CF, U+25CB: no text of the model has them
      [] cls = "[bullets]" -> FALSE
      [] OTHER          -> ch = cls \/ (ic /\ LowerChar(ch) = LowerChar(cls))

\* the length of the longest run of characters of the class from pos, at most hi
RECURSIVE RunLen(_, _, _, _, _)
RunLen(cls, s, pos, hi, ic) ==
    IF hi = 0 \/ pos > Len(s) \/ ~ClassHas(cls, Char(s, pos), ic) THEN 0
    ELSE 1 + RunLen(cls, s, pos + 1, hi - 1, ic)

\* The position after the match of items k.. at pos, or -1 when there is none:
\* the first match in the order Python's backtracking tries them (longest
\* repetition first).
\* An item that matches exactly one character has one way to match, and no
\* repetition to give back.
RECURSIVE ReFrom(_, _, _, _, _)
RECURSIVE ReTry(_, _, _, _, _, _)
ReFrom(items, k, s, pos, ic) ==
    CASE k > Len(items) -> pos
      [] k <= Len(items) /\ items[k][2] = 1 /\ items[k][3] = 1 ->
            IF pos <= Len(s) /\ ClassHas(items[k][1], Char(s, pos), ic)
            THEN ReFrom(items, k + 1, s, pos + 1, ic)
            ELSE -1
      [] OTHER -> ReTry(items, k, s, pos, ic,
                        RunLen(items[k][1], s, pos, items[k][3], ic))

ReTry(items, k, s, pos, ic, n) ==
    IF n < items[k][2] THEN -1
    ELSE LET r == ReFrom(items, k + 1, s, pos + n, ic)
         IN  IF r >= 0 THEN r ELSE ReTry(items, k, s, pos, ic, n - 1)

\* re.match(pattern, s): the end of the match (a position >= 1), or -1
ReMatchEnd(items, s, ic) == ReFrom(items, 1, s, 1, ic)
ReMatch(items, s, ic) == ReMatchEnd(items, s, ic) >= 0

\* re.match(pattern + '$', s): the match must reach the end of s, or the
\* newline that ends s
RECURSIVE ReFullFrom(_, _, _, _, _)
RECURSIVE ReFullTry(_, _, _, _, _, _)
AtEnd(s, pos) == pos = Len(s) + 1 \/ (pos = Len(s) /\ Char(s, pos) = "\n")
ReFullFrom(items, k, s, pos, ic) ==
    CASE k > Len(items) -> AtEnd(s, pos)
      [] k <= Len(items) /\ items[k][2] = 1 /\ items[k][3] = 1 ->
            /\ pos <= Len(s) /\ ClassHas(items[k][1], Char(s, pos), ic)
            /\ ReFullFrom(items, k + 1, s, pos + 1, ic)
      [] OTHER -> ReFullTry(items, k, s, pos, ic,
                            RunLen(items[k][1], s, pos, items[k][3], ic))

ReFullTry(items, k, s, pos, ic, n) ==
    IF n < items[k][2] THEN FALSE
    ELSE ReFullFrom(items, k + 1, s, pos + n, ic)
         \/ ReFullTry(items, k, s, pos, ic, n - 1)

ReFullMatch(items, s, ic) == ReFullFrom(items, 1, s, 1, ic)

\* a literal string as a pattern
Lit(str) == List([i \in 1..Len(str) |-> << Char(str, i), 1, 1 >>])

\* re.sub('^' + pattern, '', s): the text without its matched prefix
StripTo(s, e) == IF e >= 0 THEN SubSeq(s, e, Len(s)) ELSE s
ReStripPrefix(items, s) == StripTo(s, ReMatchEnd(items, s, FALSE))

\* re.search(r'\d+', s)
HasDigit(s) == \E i \in 1..Len(s) : IsDigit(Char(s, i))

\* re.split(r'[.!?]', s): the pieces between the sentence-ending characters
SentenceCuts(s) == {i \in 1..Len(s) : Char(s, i) \in {".", "!", "?"}}

SplitSentences(s) ==
    LET cuts == SortedSeq(SentenceCuts(s))
        n    == Len(cuts)
        from(k) == IF k = 1 THEN 1 ELSE cuts[k - 1] + 1
        to(k)   == IF k = n + 1 THEN Len(s) ELSE cuts[k] - 1
    IN  List([k \in 1..(n + 1) |-> SubSeq(s, from(k), to(k))])

(***************************************************************************)
(* Sequences                                                               *)
(***************************************************************************)
SeqRange(q) == {q[i] : i \in 1..Len(q)}

\* list.sort(key=...): stable; Less(a, b) is key(a) < key(b) (for reverse=True,
\* key(a) > key(b): Python keeps equal elements in their original order there too)
\* The place of q[i] in the sorted list: after the elements Less than it and
\* after the earlier elements that are neither Less nor greater.
StableRank(q, i, Less(_, _)) ==
    1 + Cardinality({j \in 1..Len(q) :
                        \/ Less(q[j], q[i])
                        \/ (j < i /\ ~Less(q[i], q[j]))})

ByRank(q, ranks) ==
    List([r \in 1..Len(q) |-> q[CHOOSE i \in 1..Len(q) : ranks[i] = r]])

StableSort(q, Less(_, _)) ==
    ByRank(q, List([i \in 1..Len(q) |-> StableRank(q, i, Less)]))

\* the elements of q at the indices I, in order
PickAt(q, at) == List([k \in 1..Len(at) |-> q[at[k]]])
Pick(q, I) == PickAt(q, SelectSeq([i \in 1..Len(q) |-> i], LAMBDA i : i \in I))

\* q[:n]
Take(q, n) == SubSeq(q, 1, MinOf(Len(q), n))

\* sum(q[lo..hi])
RECURSIVE SumRange(_, _, _)
SumRange(q, lo, hi) ==
    IF lo = hi THEN q[lo]
    ELSE SumRange(q, lo, (lo + hi) \div 2) + SumRange(q, (lo + hi) \div 2 + 1, hi)

SumSeq(q) == IF Len(q) = 0 THEN 0 ELSE SumRange(q, 1, Len(q))

RECURSIVE FlattenRange(_, _, _)
FlattenRange(qq, lo, hi) ==
    IF lo = hi THEN qq[lo]
    ELSE FlattenRange(qq, lo, (lo + hi) \div 2)
         \o FlattenRange(qq, (lo + hi) \div 2 + 1, hi)

\* the concatenation of a sequence of sequences
Flatten(qq) == IF Len(qq) = 0 THEN << >> ELSE FlattenRange(qq, 1, Len(qq))

\* floor(sqrt(x))
ISqrt(x) == CHOOSE k \in 0..(x + 1) : k * k <= x /\ (k + 1) * (k + 1) > x

(***************************************************************************)
(* PDFParser: a page is [page_number, elements]; an element is the record  *)
(* of one text span.  The parser derives is_caps from the text and the     *)
(* positions from the bounding box; it drops spans shorter than 2          *)
(* characters.                                                             *)
(***************************************************************************)
Element(text, page, y, x, size, bold) ==
    [text |-> text, page |-> page, font_size |-> size, is_bold |-> bold,
     is_caps |-> IsUpperStr(text), x_position |-> x, y_position |-> y]

(***************************************************************************)
(* TextAnalyzer                                                            *)
(***************************************************************************)
D1 == << "\\d", 1, Inf >>
Dot1 == << ".", 1, 1 >>
DotOpt == << ".", 0, 1 >>
Sp1 == << "\\s", 1, Inf >>
Sp0 == << "\\s", 0, Inf >>

heading_patterns ==
    << << D1, DotOpt, Sp1, << "[A-Z]", 1, 1 >> >>,
       << D1, Dot1, D1, DotOpt, Sp1 >>,
       << D1, Dot1, D1, Dot1, D1 >>,
       << << "[A-Z]", 1, 1 >>, << "[a-z]", 1, Inf >>, << ":", 1, 1 >> >>,
       << << "[IVX]", 1, Inf >>, DotOpt, Sp1, << "[A-Z]", 1, 1 >> >>,
       << << "[A-Z]", 1, 1 >>, DotOpt, Sp1, << "[A-Z]", 1, 1 >> >>,
       Lit("Chapter") \o << Sp1, D1 >>,
       Lit("Section") \o << Sp1, D1 >>,
       Lit("Appendix") \o << Sp1, << "[A-Z]", 1, 1 >> >> >>

heading_keywords ==
    {"introduction", "conclusion", "summary", "overview", "background",
     "methodology", "method", "approach", "results", "discussion",
     "chapter", "section", "appendix", "references", "bibliography",
     "abstract", "objectives", "goals", "requirements", "specifications",
     "implementation", "analysis", "evaluation", "recommendations",
     "acknowledgments", "acknowledgements", "contents", "index"}

\* the exclude patterns that end in $ are matched in full
exclude_prefix_patterns ==
    << Lit("page") \o << Sp1, D1 >>,
       << << "\\d", 1, 2 >>, << "[/-]", 1, 1 >>, << "\\d", 1, 2 >>,
          << "[/-]", 1, 1 >>, << "\\d", 2, 4 >> >>,
       Lit("copyright") \o << Sp1 >>,
       << << "[a-z]", 1, Inf >>, << "@", 1, 1 >>, << "[a-z]", 1, Inf >>, Dot1 >>,
       Lit("http") \o << << "s", 0, 1 >> >> \o Lit("://") >>

exclude_full_patterns == << << D1 >>, << Sp0 >> >>

_matches_exclude_patterns(text) ==
    \/ \E k \in 1..Len(exclude_full_patterns) :
           ReFullMatch(exclude_full_patterns[k], text, TRUE)
    \/ \E k \in 1..Len(exclude_prefix_patterns) :
           ReMatch(exclude_prefix_patterns[k], text, TRUE)

\* in hundredths
_analyze_text_patterns(text) ==
    (IF \E k \in 1..Len(heading_patterns) : ReMatch(heading_patterns[k], text, TRUE)
     THEN 150 ELSE 0)
    + (IF ReMatch(<< D1, Dot1 >>, text, FALSE) THEN 100
       ELSE IF ReMatch(<< D1, Dot1, D1 >>, text, FALSE) THEN 120
       ELSE IF ReMatch(<< D1, Dot1, D1, Dot1, D1 >>, text, FALSE) THEN 100
       ELSE 0)

\* min((font_size - avg_font) / max(font_std, 1), 3.0), in hundredths, for the
\* font sizes fs of the document's elements; 0 when font_size <= avg_font
FontTerm(font_size, fs) ==
    LET n     == Len(fs)
        total == SumSeq(fs)
        diffN == n * font_size - total
        SS    == SumSeq(List([i \in 1..n |-> (n * fs[i] - total) * (n * fs[i] - total)]))
    IN  IF diffN <= 0 THEN 0
        ELSE IF n = 1 \/ SS <= n * n * (n - 1)
             THEN MinOf((100 * diffN) \div n, 300)
        ELSE IF diffN * diffN * (n - 1) >= 9 * SS THEN 300
        ELSE ISqrt((10000 * diffN * diffN * (n - 1)) \div SS)

\* score before the floor, in hundredths
\* for text, the stripped text of the element
RawHeadingScore(element, text, fs) ==
    FontTerm(element.font_size, fs)
    + (IF element.x_position < 100 THEN 50 ELSE 0)
    + _analyze_text_patterns(text)
    + (IF Len(text) < 100 THEN 50 ELSE 0)
    + (IF Len(text) < 50 THEN 50 ELSE 0)
    + (IF WordCount(text) <= 10 THEN 50 ELSE 0)
    + (IF \E kw \in heading_keywords : Contains(kw, Lower(text))
       THEN 100 ELSE 0)
    + (IF element.is_bold THEN 100 ELSE 0)
    + (IF element.is_caps /\ Len(text) > 3 THEN 50 ELSE 0)
    - (IF _matches_exclude_patterns(text) THEN 200 ELSE 0)

\* as HeadingScoreOf, without the floor
UnclampedHeadingScore(element, text, fs) == RawHeadingScore(element, text, fs)

\* heading_score = max(0, score), in hundredths
HeadingScoreOf(element, text, fs) == MaxOf(0, RawHeadingScore(element, text, fs))

HeadingScore(element, fs) == HeadingScoreOf(element, Strip(element.text), fs)

_analyze_single_element(element, fs) ==
    [text |-> element.text, page |-> element.page,
     font_size |-> element.font_size, is_bold |-> element.is_bold,
     is_caps |-> element.is_caps, x_position |-> element.x_position,
     y_position |-> element.y_position,
     heading_score |-> HeadingScore(element, fs),
     pattern_score |-> _analyze_text_patterns(Strip(element.text))]

\* all elements of all pages, in page order
AllElements(pages_data) ==
    Flatten(List([p \in 1..Len(pages_data) |-> pages_data[p].elements]))

\* font_sizes
FontSizes(all) == List([i \in 1..Len(all) |-> all[i].font_size])

AnalyzeAll(all, fs) ==
    List([i \in 1..Len(all) |-> _analyze_single_element(all[i], fs)])

analyze_elements(pages_data) ==
    AnalyzeAll(AllElements(pages_data), FontSizes(AllElements(pages_data)))

(***************************************************************************)
(* HeadingDetector.  A heading is a record; pattern_level and font_level   *)
(* are 0 when the Python dict has no such key, level is "" until           *)
(* _assign_hierarchy_levels sets it.  confidence is in thousandths.        *)
(***************************************************************************)
min_heading_score == 150

hierarchical_patterns ==
    << << D1, DotOpt, Sp1 >>,
       << D1, Dot1, D1, DotOpt, Sp1 >>,
       << D1, Dot1, D1, Dot1, D1, DotOpt, Sp1 >>,
       << D1, Dot1, D1, Dot1, D1, Dot1, D1 >> >>

_create_heading_dict(element) ==
    [text |-> Strip(element.text), page |-> element.page,
     font_size |-> element.font_size, is_bold |-> element.is_bold,
     y_position |-> element.y_position, x_position |-> element.x_position,
     detection_method |-> "", confidence |-> 0, pattern_level |-> 0,
     font_level |-> 0, detection_methods |-> << >>, level |-> ""]

\* as ScoreHeading, with min(score / 2.5, 1.0) for the confidence
ScoreHeadingDoubled(element) ==
    [_create_heading_dict(element) EXCEPT
        !.detection_method = "score",
        !.confidence = MinOf(element.heading_score * 4, 1000)]

ScoreHeading(element) ==
    [_create_heading_dict(element) EXCEPT
        !.detection_method = "score",
        !.confidence = MinOf(element.heading_score * 2, 1000)]

ScoreHeadings(cand) == List([i \in 1..Len(cand) |-> ScoreHeading(cand[i])])

_detect_by_score(elements) ==
    ScoreHeadings(SelectSeq(elements,
                      LAMBDA element : element.heading_score >= min_heading_score))

\* the index of the first hierarchical pattern the text matches, or 0
PatternLevel(text) ==
    FirstIn({k \in 1..Len(hierarchical_patterns) :
                ReMatch(hierarchical_patterns[k], text, FALSE)})

PatternHeading(element) ==
    [_create_heading_dict(element) EXCEPT
        !.detection_method = "pattern",
        !.pattern_level = PatternLevel(Strip(element.text)),
        !.confidence = 900]

PatternHeadings(cand) == List([i \in 1..Len(cand) |-> PatternHeading(cand[i])])

_detect_by_patterns(elements) ==
    PatternHeadings(SelectSeq(elements,
                        LAMBDA element : PatternLevel(Strip(element.text)) > 0))

\* sorted(keys, reverse=True)
RECURSIVE SortedDesc(_)
SortedDesc(S) ==
    IF S = {} THEN << >>
    ELSE LET m == CHOOSE x \in S : \A y \in S : x >= y
         IN  << m >> \o SortedDesc(S \ {m})

\* for text, the stripped text of the element
FontCandidateText(text) ==
    /\ Len(text) <= 200
    /\ ~ReFullMatch(<< D1 >>, Lower(text), FALSE)
    /\ ~ReMatch(Lit("page") \o << Sp1, D1 >>, Lower(text), FALSE)

FontCandidate(element) == FontCandidateText(Strip(element.text))

FontHeading(element, i) ==
    [_create_heading_dict(element) EXCEPT
        !.detection_method = "font_cluster",
        !.font_level = i,
        !.confidence = 700 - (i - 1) * 150]

\* as FontHeadings, without the test on the number of candidates
FontHeadingsAnyNumber(cand, i) ==
    List([k \in 1..Len(cand) |-> FontHeading(cand[k], i)])

\* the candidates of the i-th largest font size, if they are 2 to 20
FontHeadings(cand, i) ==
    IF 2 <= Len(cand) /\ Len(cand) <= 20
    THEN List([k \in 1..Len(cand) |-> FontHeading(cand[k], i)])
    ELSE << >>

FontGroup(elements, sizes, i) ==
    FontHeadings(SelectSeq(elements,
                     LAMBDA element : /\ element.font_size = sizes[i]
                                      /\ FontCandidate(element)), i)

\* for sizes, the font sizes of the elements, largest first
FontGroups(elements, sizes) ==
    Flatten(List([i \in 1..MinOf(Len(sizes), 4) |-> FontGroup(elements, sizes, i)]))

_detect_by_font_clustering(elements) ==
    FontGroups(elements,
               SortedDesc({elements[i].font_size : i \in 1..Len(elements)}))

\* key = (heading['text'][:50], heading['page'])
HeadingKey(h) == << SubSeq(h.text, 1, MinOf(Len(h.text), 50)), h.page >>

\* the candidates that the loop of _combine_strategies finds under the key of
\* all[i]: all[i] is the first of them when "key in combined" is false for it
SameKey(all, i) ==
    SortedSeq({j \in 1..Len(all) : HeadingKey(all[j]) = HeadingKey(all[i])})

NewKeys(all) ==
    SortedSeq({i \in 1..Len(all) :
                  \A j \in 1..(i - 1) : HeadingKey(all[j]) # HeadingKey(all[i])})

\* combined[key] once the loop is over: the first candidate of the key, with
\* min(confidence + 0.2, 1.0) applied and the detection_method appended once
\* for every later candidate of the key (min(. + 0.2, 1.0) applied n times is
\* min(. + 0.2 * n, 1.0))
CombinedEntry(all, same) ==
    [all[same[1]] EXCEPT
        !.confidence = MinOf(@ + 200 * (Len(same) - 1), 1000),
        !.detection_methods =
            List([k \in 1..Len(same) |-> all[same[k]].detection_method])]

\* list(combined.values()): the keys in the order of their first candidate
CombinedValues(all, keys) ==
    List([k \in 1..Len(keys) |-> CombinedEntry(all, SameKey(all, keys[k]))])

\* _combine_strategies(*strategy_results)
_combine_strategies(strategy_results) ==
    Of(LAMBDA all : Of(LAMBDA keys : CombinedValues(all, keys), {NewKeys(all)}),
       {Flatten(strategy_results)})

\* f"H{level}" and int(level[1:])
LevelName(n) == "H" \o Char(Digits, n + 1)
LevelNum(level) ==
    LET d == SubSeq(level, 2, Len(level))
    IN  (CHOOSE k \in 1..Len(Digits) : Char(Digits, k) = d) - 1

_determine_heading_level(heading, all_headings) ==
    IF heading.pattern_level > 0 THEN heading.pattern_level
    ELSE LET unique_sizes == SortedDesc({all_headings[i].font_size :
                                            i \in 1..Len(all_headings)})
             idx == CHOOSE k \in 1..Len(unique_sizes) :
                        unique_sizes[k] = heading.font_size
         IN  MinOf(idx, 6)

_assign_hierarchy_levels(headings) ==
    List([i \in 1..Len(headings) |->
        [headings[i] EXCEPT
            !.level = LevelName(_determine_heading_level(headings[i], headings))]])

HeadingBefore(a, b) ==
    \/ a.page < b.page
    \/ (a.page = b.page /\ a.y_position < b.y_position)

\* the three strategy results, in the order detect_headings passes them
StrategyResults(analyzed_elements) ==
    << _detect_by_score(analyzed_elements),
       _detect_by_patterns(analyzed_elements),
       _detect_by_font_clustering(analyzed_elements) >>

detect_headings(analyzed_elements) ==
    IF Len(analyzed_elements) = 0 THEN << >>
    ELSE Of(LAMBDA levelled : StableSort(levelled, HeadingBefore),
            {Of(_assign_hierarchy_levels,
                {Of(_combine_strategies, {StrategyResults(analyzed_elements)})})})

\* the substrings looked for in text.lower() (the copyright sign is left out:
\* the texts of the model are ASCII)
false_positive_markers ==
    {"page ", "copyright", "draft", "confidential", "version", "rev",
     "date:", "author:"}

\* as KeepHeadingText, keeping a confidence of 0.3
KeepAtThreshold(heading, text) ==
    /\ Len(text) >= 3
    /\ ~ReFullMatch(<< D1 >>, text, FALSE)
    /\ ~\E m \in false_positive_markers : Contains(m, Lower(text))
    /\ heading.confidence >= 300

\* for text, the stripped text of the heading
KeepHeadingText(heading, text) ==
    /\ Len(text) >= 3
    /\ ~ReFullMatch(<< D1 >>, text, FALSE)
    /\ ~\E m \in false_positive_markers : Contains(m, Lower(text))
    /\ heading.confidence > 300

KeepHeading(heading) == KeepHeadingText(heading, Strip(heading.text))

filter_false_positives(headings) ==
    SelectSeq(headings, KeepHeading)

(***************************************************************************)
(* Rationals [n, d] with d > 0, for the relevance scores                   *)
(***************************************************************************)
\* in lowest terms
RECURSIVE GCD(_, _)
GCD(a, b) == IF b = 0 THEN a ELSE GCD(b, a % b)
Rat(n, d) ==
    LET g == GCD(IF n < 0 THEN -n ELSE n, d)
    IN  [n |-> n \div g, d |-> d \div g]
RLess(a, b) == a.n * b.d < b.n * a.d
RLeq(a, b) == a.n * b.d <= b.n * a.d
REq(a, b) == a.n * b.d = b.n * a.d
\* min(a, 1.0)
RCap(a) == IF a.n > a.d THEN Rat(a.d, a.d) ELSE a
\* a + h / 100
RAddHundredths(a, h) == Rat(100 * a.n + h * a.d, 100 * a.d)
Hundredths(h) == Rat(h, 100)

(***************************************************************************)
(* RelevanceAnalyzer                                                       *)
(***************************************************************************)
persona_keywords ==
    <<
       << "researcher",
          {"research", "study", "analysis", "methodology",
           "experiment", "findings", "literature", "survey",
           "review", "academic", "publication", "dataset",
           "benchmark", "evaluation", "metrics"} >>,
       << "student",
          {"learn", "study", "understand", "concept", "theory",
           "practice", "example", "exercise", "problem", "solution",
           "tutorial", "guide", "basics", "fundamentals",
           "introduction"} >>,
       << "analyst",
          {"analysis", "data", "trends", "metrics", "performance",
           "report", "insights", "statistics", "comparison",
           "evaluation", "assessment", "strategy", "planning",
           "forecast"} >>,
       << "engineer",
          {"implementation", "design", "architecture", "system",
           "technical", "specification", "requirements",
           "development", "engineering", "performance",
           "optimization", "scalability"} >>,
       << "manager",
          {"strategy", "planning", "management", "decision",
           "leadership", "team", "project", "resource", "budget",
           "timeline", "risk", "stakeholder", "business",
           "objective"} >>,
       << "salesperson",
          {"sales", "revenue", "customer", "market", "competition",
           "pricing", "product", "service", "client", "prospect",
           "deal", "negotiation", "relationship", "growth"} >>,
       << "journalist",
          {"news", "report", "story", "investigation", "interview",
           "source", "fact", "event", "update", "coverage",
           "article", "publication", "media", "press"} >>,
       << "entrepreneur",
          {"business", "startup", "opportunity", "market",
           "innovation", "investment", "funding", "growth",
           "strategy", "competition", "revenue", "customer",
           "product", "scale"} >>
    >>

job_keywords ==
    <<
       << "literature_review",
          {"review", "survey", "comparison", "analysis",
           "methodology", "findings", "research", "studies",
           "approaches", "techniques", "evaluation", "benchmarks"} >>,
       << "exam_preparation",
          {"key", "concepts", "important", "remember", "understand",
           "practice", "example", "problem", "solution", "theory",
           "principle", "formula", "definition"} >>,
       << "financial_analysis",
          {"revenue", "profit", "cost", "expense", "financial",
           "performance", "growth", "investment", "return", "margin",
           "cash", "budget", "forecast"} >>,
       << "market_analysis",
          {"market", "competition", "trends", "share", "size",
           "growth", "opportunity", "threat", "customer", "segment",
           "positioning", "strategy"} >>,
       << "technical_implementation",
          {"implementation", "design", "architecture", "system",
           "technical", "specification", "requirements",
           "development", "coding", "testing"} >>,
       << "summary",
          {"summary", "overview", "key", "main", "important",
           "highlights", "conclusion", "findings", "results",
           "insights", "takeaways"} >>,
       << "comparison",
          {"compare", "comparison", "versus", "difference",
           "similarity", "contrast", "alternative", "option",
           "choice", "evaluation", "assessment"} >>
    >>

stop_words ==
    {"the", "a", "an", "and", "or", "but", "in", "on", "at", "to", "for",
     "of", "with", "by", "is", "are", "was", "were", "be", "been", "have",
     "has", "had", "do", "does", "did", "will", "would", "could", "should",
     "this", "that", "these", "those", "i", "you", "he", "she", "it", "we",
     "they"}

\* the words kept, and the two-word phrases of consecutive kept words
KeywordsOf(words_list) ==
    SeqRange(words_list)
    \cup {ph \in {words_list[i] \o " " \o words_list[i + 1] :
                     i \in 1..(Len(words_list) - 1)} : Len(ph) > 5}

KeptWords(words) ==
    SelectSeq(words, LAMBDA word : word \notin stop_words /\ Len(word) > 2)

_extract_keywords_from_text(text) == KeywordsOf(KeptWords(WordList(Lower(text))))

_get_persona_specific_keywords(persona) ==
    UNION {persona_keywords[k][2] :
              k \in {j \in 1..Len(persona_keywords) :
                        Contains(persona_keywords[j][1], Lower(persona))}}

\* job_type.split('_')
SplitUnderscore(t) ==
    LET cuts == SortedSeq({i \in 1..Len(t) : Char(t, i) = "_"})
        n    == Len(cuts)
    IN  {SubSeq(t, (IF k = 1 THEN 1 ELSE cuts[k - 1] + 1),
                   (IF k = n + 1 THEN Len(t) ELSE cuts[k] - 1)) : k \in 1..(n + 1)}

_get_job_specific_keywords(job_to_be_done) ==
    UNION {job_keywords[k][2] :
              k \in {j \in 1..Len(job_keywords) :
                        \E w \in SplitUnderscore(job_keywords[j][1]) :
                            Contains(w, Lower(job_to_be_done))}}

\* len(keyword.split()) > 1
IsPhrase(kw) == WordCount(kw) > 1

\* int(level[1:]) if level.startswith('H') else 3
LevelOf(heading_level) ==
    IF StartsWith(heading_level, "H") THEN LevelNum(heading_level) ELSE 3

\* the number of keywords found in the text
Hits(keywords, text) == Cardinality({kw \in keywords : Contains(kw, text)})
PhraseHits(keywords, text) ==
    Cardinality({kw \in keywords : IsPhrase(kw) /\ Contains(kw, text)})

\* the score from the counts: flat is the sum, in hundredths, of the terms that
\* do not depend on the number L of distinct words of the content
RelevanceFrom(flat, L, pm, jm) ==
    IF L > 0
    THEN RCap(Rat(flat * L + 20 * pm + 30 * jm, 100 * L))
    ELSE RCap(Rat(flat, 100))

\* for content and title in lower case
RelevanceOf(content, title, content_words, level_num, pk, jk) ==
    RelevanceFrom(30 * Hits(pk, title) + 40 * Hits(jk, title)
                    + 10 * PhraseHits(pk, content) + 15 * PhraseHits(jk, content)
                    + MaxOf(0, (4 - level_num) * 5),
                  Cardinality(content_words),
                  Cardinality(pk \cap content_words),
                  Cardinality(jk \cap content_words))

_calculate_relevance_score(section, pk, jk) ==
    Of2(LAMBDA content, title :
            RelevanceOf(content, title, WordSet(content),
                        LevelOf(section.heading_level), pk, jk),
        {Lower(section.content)}, {Lower(section.section_title)})

(***************************************************************************)
(* Section segmentation.  A span is the list of the elements a section     *)
(* collects, each named << index of the page in pages_data, index of the   *)
(* element in the page >>; the content is their texts joined.              *)
(***************************************************************************)
NoScore == Rat(-1, 1)

\* the text of the elements of a span that have text, joined by single spaces
SpanTexts(pages_data, span) ==
    List([k \in 1..Len(span) |->
             Strip(pages_data[span[k][1]].elements[span[k][2]].text)])

NonEmpty(texts) == SelectSeq(texts, LAMBDA text : text # "")

SpanText(pages_data, span) == Of(JoinSp, {NonEmpty(SpanTexts(pages_data, span))})

\* _extract_page_text: every element of the page
PageSpan(pages_data, p) ==
    List([i \in 1..Len(pages_data[p].elements) |-> << p, i >>])

_extract_page_text(pages_data, p) == SpanText(pages_data, PageSpan(pages_data, p))

\* as PageSpanForSection, with the end of the range included
PageSpanThroughEnd(pages_data, p, start_y, end_y) ==
    Pick(PageSpan(pages_data, p),
         {i \in 1..Len(pages_data[p].elements) :
             /\ start_y <= pages_data[p].elements[i].y_position
             /\ pages_data[p].elements[i].y_position <= end_y})

\* _extract_page_text_for_section: the elements with start_y <= y_position < end_y
PageSpanForSection(pages_data, p, start_y, end_y) ==
    Pick(PageSpan(pages_data, p),
         {i \in 1..Len(pages_data[p].elements) :
             /\ start_y <= pages_data[p].elements[i].y_position
             /\ pages_data[p].elements[i].y_position < end_y})

\* the first of remaining_headings whose level is <= the current one, or 0
NextHeadingIndex(current_heading, remaining_headings) ==
    FirstIn({k \in 1..Len(remaining_headings) :
                LevelNum(remaining_headings[k].level)
                    <= LevelNum(current_heading.level)})

\* the pages the loop of _extract_section_content visits: from the first one on,
\* those not before start_page, until the first page after the next heading's
PagesVisited(pages_data, start_page, has_next, next_page) ==
    LET stop == {p \in 1..Len(pages_data) :
                    /\ pages_data[p].page_number >= start_page
                    /\ has_next /\ pages_data[p].page_number > next_page}
        last == IF stop = {} THEN Len(pages_data) ELSE FirstIn(stop) - 1
    IN  Pick(List([p \in 1..Len(pages_data) |-> p]),
             {p \in 1..last : pages_data[p].page_number >= start_page})

\* the span over the pages visited: start_y and end_y bound the elements on the
\* page of the heading and on the page of the next one
SectionSpanOver(visited, pages_data, start_page, start_y, has_next, next_page, next_y) ==
    Flatten(List([k \in 1..Len(visited) |->
        PageSpanForSection(pages_data, visited[k],
            IF pages_data[visited[k]].page_number = start_page THEN start_y ELSE 0,
            IF has_next /\ pages_data[visited[k]].page_number = next_page
            THEN next_y ELSE Inf)]))

SectionSpanTo(current_heading, pages_data, has_next, next_page, next_y) ==
    Of(LAMBDA visited :
           SectionSpanOver(visited, pages_data, current_heading.page,
                           current_heading.y_position, has_next, next_page, next_y),
       {PagesVisited(pages_data, current_heading.page, has_next, next_page)})

\* for nx, the index of the next heading in remaining_headings, or 0
SectionSpanAt(current_heading, remaining_headings, pages_data, nx) ==
    SectionSpanTo(current_heading, pages_data, nx > 0,
                  IF nx > 0 THEN remaining_headings[nx].page ELSE Inf,
                  IF nx > 0 THEN remaining_headings[nx].y_position ELSE Inf)

SectionSpan(current_heading, remaining_headings, pages_data) ==
    Of(LAMBDA nx : SectionSpanAt(current_heading, remaining_headings, pages_data, nx),
       {NextHeadingIndex(current_heading, remaining_headings)})

_extract_section_content(current_heading, remaining_headings, pages_data) ==
    Of(LAMBDA span : SpanText(pages_data, span),
       {SectionSpan(current_heading, remaining_headings, pages_data)})

Section(title, page, content, level) ==
    [section_title |-> title, page_number |-> page, content |-> content,
     heading_level |-> level, relevance_score |-> NoScore, document |-> "",
     final_score |-> NoScore]

\* A section with its span: [section, span, heading], heading being the index
\* of the heading the section comes from, or 0 for a page section.
PageSection(pages_data, i) ==
    [section |-> Section("Page " \o Char(Digits, i + 1), i,
                         _extract_page_text(pages_data, i), "H1"),
     span |-> PageSpan(pages_data, i), heading |-> 0]

HeadingSection(headings, i, pages_data) ==
    [section |-> Section(headings[i].text, headings[i].page,
                    _extract_section_content(headings[i],
                        SubSeq(headings, i + 1, Len(headings)), pages_data),
                    headings[i].level),
     span |-> SectionSpan(headings[i], SubSeq(headings, i + 1, Len(headings)),
                          pages_data),
     heading |-> i]

AllSectionSpans(headings, pages_data) ==
    IF Len(headings) = 0
    THEN List([i \in 1..Len(pages_data) |-> PageSection(pages_data, i)])
    ELSE List([i \in 1..Len(headings) |-> HeadingSection(headings, i, pages_data)])

\* as WithContent, without the test
WithoutContentTest(spans) == spans

\* if section_content.strip()
WithContent(spans) ==
    SelectSeq(spans, LAMBDA span : Strip(span.section.content) # "")

\* the sections of a document with the span of each
DocSectionSpans(doc_data) ==
    WithContent(AllSectionSpans(doc_data.headings, doc_data.pages_data))

SectionsOf(spans) == List([i \in 1..Len(spans) |-> spans[i].section])

_extract_document_sections(doc_data) == Of(SectionsOf, {DocSectionSpans(doc_data)})

ScoreGreater(a, b) == RLess(b.relevance_score, a.relevance_score)

ScoreSection(section, pk, jk, file_name) ==
    [section EXCEPT !.relevance_score = _calculate_relevance_score(section, pk, jk),
                    !.document = file_name]

ScoreAll(secs, pk, jk, file_name) ==
    List([i \in 1..Len(secs) |-> ScoreSection(secs[i], pk, jk, file_name)])

\* if relevance_score > 0.1
Relevant(scored) ==
    SelectSeq(scored,
              LAMBDA section : RLess(Hundredths(10), section.relevance_score))

DocRelevantSections(doc_data, pk, jk) ==
    Relevant(Of(LAMBDA secs : ScoreAll(secs, pk, jk, doc_data.file_name),
                {_extract_document_sections(doc_data)}))

AllRelevantSections(documents_data, pk, jk) ==
    Of(LAMBDA found : StableSort(found, ScoreGreater),
       {Flatten(List([d \in 1..Len(documents_data) |->
                        DocRelevantSections(documents_data[d], pk, jk)]))})

PersonaKeywords(persona_string) ==
    _extract_keywords_from_text(persona_string)
    \cup _get_persona_specific_keywords(persona_string)

JobKeywords(job_string) ==
    _extract_keywords_from_text(job_string)
    \cup _get_job_specific_keywords(job_string)

\* analyze_relevance for the persona and job strings it reads from its arguments
ScoredSections(documents_data, persona_string, job_string) ==
    Of2(LAMBDA pk, jk : AllRelevantSections(documents_data, pk, jk),
        {PersonaKeywords(persona_string)}, {JobKeywords(job_string)})

(***************************************************************************)
(* SectionExtractor                                                        *)
(***************************************************************************)
max_sections == 20
\* min_relevance_score, in hundredths
min_relevance_score == 20
MaxRanked == 5

persona_indicators ==
    <<
       << "researcher",
          {"methodology", "experiment", "analysis", "results",
           "findings", "study", "research", "data", "statistical",
           "empirical"} >>,
       << "student",
          {"example", "exercise", "practice", "tutorial", "concept",
           "theory", "learn", "understand", "definition",
           "explanation"} >>,
       << "analyst",
          {"data", "metrics", "performance", "trends", "statistics",
           "insights", "report", "analysis", "comparison",
           "benchmark"} >>,
       << "engineer",
          {"implementation", "system", "design", "architecture",
           "technical", "specification", "development",
           "optimization", "scalability"} >>,
       << "manager",
          {"strategy", "planning", "management", "objectives",
           "goals", "resources", "team", "leadership", "decision",
           "business"} >>,
       << "salesperson",
          {"sales", "revenue", "customer", "market", "pricing",
           "product", "client", "growth", "competition",
           "opportunity"} >>,
       << "journalist",
          {"news", "report", "investigation", "facts", "source",
           "interview", "story", "coverage", "update", "event"} >>,
       << "entrepreneur",
          {"business", "startup", "innovation", "market",
           "opportunity", "investment", "growth", "strategy",
           "revenue", "customer"} >>
    >>

job_indicators ==
    <<
       << "literature review",
          {"review", "survey", "comparison", "analysis",
           "methodology", "findings", "research", "studies",
           "approaches", "techniques", "evaluation", "benchmarks"} >>,
       << "exam preparation",
          {"key", "concepts", "important", "remember", "understand",
           "practice", "example", "problem", "solution", "theory",
           "principle", "formula", "definition"} >>,
       << "financial analysis",
          {"revenue", "profit", "cost", "expense", "financial",
           "performance", "growth", "investment", "return", "margin",
           "cash", "budget", "forecast"} >>,
       << "market analysis",
          {"market", "competition", "trends", "share", "size",
           "growth", "opportunity", "threat", "customer", "segment",
           "positioning", "strategy"} >>,
       << "technical implementation",
          {"implementation", "design", "architecture", "system",
           "technical", "specification", "requirements",
           "development", "coding", "testing"} >>,
       << "summary",
          {"summary", "overview", "key points", "highlights",
           "conclusion", "findings", "results", "insights"} >>,
       << "comparison",
          {"compare", "comparison", "versus", "difference",
           "similarity", "contrast", "alternative", "option",
           "choice", "evaluation", "assessment"} >>
    >>

\* _has_persona_specific_content / _has_job_specific_content, for the string
\* each reads from its argument
HasIndicator(content, title, described, indicators) ==
    \E k \in 1..Len(indicators) :
        /\ Contains(indicators[k][1], described)
        /\ \E ind \in indicators[k][2] :
               Contains(ind, content) \/ Contains(ind, title)

HasSpecificContent(section, described, indicators) ==
    HasIndicator(Lower(section.content), Lower(section.section_title),
                 Lower(described), indicators)

title_quality_words == {"introduction", "overview", "summary", "conclusion"}

\* the bonuses of _calculate_final_score, in hundredths
LengthBonus(content_length) ==
    IF 50 <= content_length /\ content_length <= 500 THEN 10
    ELSE IF content_length > 500 THEN 5 ELSE 0

LevelBonus(level_num) ==
    IF level_num <= 2 THEN 15 ELSE IF level_num = 3 THEN 5 ELSE 0

TitleBonus(title) ==
    IF \E w \in title_quality_words : Contains(w, title) THEN 10 ELSE 0

FinalBonus(section, persona_string, job_string) ==
    LengthBonus(WordCount(section.content))
    + LevelBonus(LevelOf(section.heading_level))
    + TitleBonus(Lower(section.section_title))
    + (IF HasSpecificContent(section, persona_string, persona_indicators)
       THEN 10 ELSE 0)
    + (IF HasSpecificContent(section, job_string, job_indicators)
       THEN 10 ELSE 0)

\* as _calculate_final_score, without the cap
UncappedFinalScore(section, persona_string, job_string) ==
    RAddHundredths(section.relevance_score,
                   FinalBonus(section, persona_string, job_string))

_calculate_final_score(section, persona_string, job_string) ==
    RCap(RAddHundredths(section.relevance_score,
                        FinalBonus(section, persona_string, job_string)))

\* title[0].upper() + title[1:] if title[0].islower()
Capitalized(t) ==
    IF t # "" /\ IsLower(Char(t, 1))
    THEN UpperChar(Char(t, 1)) \o SubSeq(t, 2, Len(t))
    ELSE t

_clean_section_title(title) ==
    IF title = "" THEN "Untitled Section"
    ELSE Strip(Capitalized(
            ReStripPrefix(<< << "[bullets]", 1, 1 >>, Sp0 >>,
                ReStripPrefix(<< D1, DotOpt, Sp0 >>, Of(JoinSp, {Split(title)})))))

FinalGreater(a, b) == RLess(b.final_score, a.final_score)

\* relevant_sections after extract_sections: the sections it keeps are scored in
\* place (the filtered list holds the same dicts)
WithFinalScores(relevant_sections, persona_string, job_string) ==
    List([i \in 1..Len(relevant_sections) |->
        IF RLeq(Hundredths(min_relevance_score), relevant_sections[i].relevance_score)
        THEN [relevant_sections[i] EXCEPT
                !.final_score = _calculate_final_score(relevant_sections[i],
                                                       persona_string, job_string)]
        ELSE relevant_sections[i]])

\* top_sections: the kept sections by final score, at most max_sections
\* filtered_sections
Filtered(sections) ==
    SelectSeq(sections,
              LAMBDA section : RLeq(Hundredths(min_relevance_score),
                                    section.relevance_score))

\* as TopSections, without the sort by final score
TopSectionsUnsorted(scored_sections) ==
    Take(Filtered(scored_sections), max_sections)

TopSections(scored_sections) ==
    Take(Of(LAMBDA filtered : StableSort(filtered, FinalGreater),
            {Filtered(scored_sections)}),
         max_sections)

ExtractedSection(section, i) ==
    [document |-> section.document, page_number |-> section.page_number,
     section_title |-> _clean_section_title(section.section_title),
     importance_rank |-> i]

\* the list extract_sections returns, from its top_sections
FormatSections(top_sections) ==
    List([i \in 1..MinOf(Len(top_sections), MaxRanked) |->
        ExtractedSection(top_sections[i], i)])

(***************************************************************************)
(* SubSectionAnalyzer                                                      *)
(***************************************************************************)
min_subsection_length == 30
max_subsections_per_section == 5

_normalize_text(text) == Of(JoinSp, {Of(Split, {Strip(Lower(text))})})

\* the index of the heading _find_section_content matches, or 0
TargetHeading(doc_data, section_title, page_number) ==
    FirstIn({k \in 1..Len(doc_data.headings) :
                /\ _normalize_text(doc_data.headings[k].text)
                     = _normalize_text(section_title)
                /\ doc_data.headings[k].page = page_number})

\* the first heading after the current one, by position, of the same or a
\* higher level, or 0
NextHeadingByPosition(current_heading, all_headings) ==
    FirstIn({k \in 1..Len(all_headings) :
                /\ \/ all_headings[k].page > current_heading.page
                   \/ /\ all_headings[k].page = current_heading.page
                      /\ all_headings[k].y_position > current_heading.y_position
                /\ LevelNum(all_headings[k].level)
                     <= LevelNum(current_heading.level)})

\* the elements of page p that the inner loop of
\* _extract_section_content_by_heading collects: it leaves the page at the first
\* element at or below the next heading
PageSpanByHeading(pages_data, p, start_page, start_y, has_next, next_page, next_y) ==
    LET els      == pages_data[p].elements
        page_num == pages_data[p].page_number
        skipped(i) == page_num = start_page /\ els[i].y_position <= start_y
        stops(i)   == /\ ~skipped(i)
                      /\ has_next /\ page_num = next_page
                      /\ els[i].y_position >= next_y
        stop == {i \in 1..Len(els) : stops(i)}
        last == IF stop = {} THEN Len(els) ELSE FirstIn(stop) - 1
    IN  Pick(PageSpan(pages_data, p), {i \in 1..last : ~skipped(i)})

SpanByHeadingOver(visited, pages_data, start_page, start_y, has_next, next_page, next_y) ==
    Flatten(List([k \in 1..Len(visited) |->
        PageSpanByHeading(pages_data, visited[k], start_page, start_y,
                          has_next, next_page, next_y)]))

SpanByHeadingTo(current_heading, pages_data, has_next, next_page, next_y) ==
    Of(LAMBDA visited :
           SpanByHeadingOver(visited, pages_data, current_heading.page,
                             current_heading.y_position, has_next, next_page, next_y),
       {PagesVisited(pages_data, current_heading.page, has_next, next_page)})

\* for nx, the index of the next heading in all_headings, or 0
SpanByHeadingAt(current_heading, all_headings, pages_data, nx) ==
    SpanByHeadingTo(current_heading, pages_data, nx > 0,
                    IF nx > 0 THEN all_headings[nx].page ELSE Inf,
                    IF nx > 0 THEN all_headings[nx].y_position ELSE 0)

SpanByHeading(current_heading, all_headings, pages_data) ==
    Of(LAMBDA nx : SpanByHeadingAt(current_heading, all_headings, pages_data, nx),
       {NextHeadingByPosition(current_heading, all_headings)})

_extract_section_content_by_heading(current_heading, all_headings, pages_data) ==
    Of(LAMBDA span : SpanText(pages_data, span),
       {SpanByHeading(current_heading, all_headings, pages_data)})

\* the whole-page fallback: the text of the first page with that number
FallbackPage(pages_data, p) ==
    IF p = 0 THEN "" ELSE _extract_page_text(pages_data, p)

FallbackPageText(pages_data, page_number) ==
    FallbackPage(pages_data,
                 FirstIn({p \in 1..Len(pages_data) :
                             pages_data[p].page_number = page_number}))

\* for t, the index of the target heading, or 0
SectionContentAt(doc_data, page_number, t) ==
    IF t = 0 THEN FallbackPageText(doc_data.pages_data, page_number)
    ELSE _extract_section_content_by_heading(doc_data.headings[t],
                                             doc_data.headings,
                                             doc_data.pages_data)

_find_section_content(doc_data, section_title, page_number) ==
    Of(LAMBDA t : SectionContentAt(doc_data, page_number, t),
       {TargetHeading(doc_data, section_title, page_number)})

subsection_stop_words ==
    {"the", "a", "an", "and", "or", "but", "in", "on", "at", "to", "for",
     "of", "with", "by", "is", "are", "was", "were", "be", "been", "have",
     "has", "had", "do", "does", "did", "will", "would", "could", "should"}

_extract_keywords(text) ==
    {w \in WordSet(Lower(text)) : Len(w) > 2 /\ w \notin subsection_stop_words}

\* the score from the counts, n being the number of distinct words of the text
SubsectionRelevanceFrom(n, pm, jm, pp, pj) ==
    IF n > 0
    THEN RCap(Rat(40 * pm + 60 * jm + n * (10 * pp + 15 * pj), 100 * n))
    ELSE RCap(Rat(10 * pp + 15 * pj, 100))

\* for the text in lower case and its set of words
SubsectionRelevanceOf(text_lower, text_words, pk, jk) ==
    SubsectionRelevanceFrom(Cardinality(text_words),
                            Cardinality(pk \cap text_words),
                            Cardinality(jk \cap text_words),
                            PhraseHits(pk, text_lower), PhraseHits(jk, text_lower))

_calculate_subsection_relevance(text, persona_string, job_string) ==
    Of(LAMBDA text_lower :
           SubsectionRelevanceOf(text_lower, WordSet(text_lower),
                                 _extract_keywords(persona_string),
                                 _extract_keywords(Lower(job_string))),
       {Lower(text)})

\* text + '.' if text and not text.endswith(('.', '!', '?', ':'))
WithFullStop(t) ==
    IF t # "" /\ ~\E e \in {".", "!", "?", ":"} : EndsWith(t, e)
    THEN t \o "." ELSE t

_refine_text(text) ==
    Strip(WithFullStop(
        ReStripPrefix(<< Sp0, << "[bullets]", 1, 1 >>, Sp0 >>,
                      Of(JoinSp, {Split(text)}))))

insight_indicators ==
    {"important", "key", "significant", "critical", "essential", "main",
     "primary", "fundamental", "crucial", "major", "notable", "remarkable"}

result_terms == {"result", "finding", "conclusion", "shows", "indicates"}

StripAll(raw) == List([k \in 1..Len(raw) |-> Strip(raw[k])])

\* the sentences with an insight indicator
SignalSentences(sentences) ==
    SelectSeq(sentences, LAMBDA sentence :
        /\ WordCount(sentence) >= 8
        /\ \E ind \in insight_indicators : Contains(ind, Lower(sentence)))

\* the sentences with a number or a result term
ResultSentences(sentences) ==
    SelectSeq(sentences, LAMBDA sentence :
        /\ WordCount(sentence) >= 8
        /\ \/ HasDigit(sentence)
           \/ \E term \in result_terms : Contains(term, Lower(sentence)))

\* insights[:3], each with its full stop
FirstInsights(insights) ==
    List([k \in 1..MinOf(Len(insights), 3) |-> insights[k] \o "."])

InsightsAmong(signal, sentences) ==
    FirstInsights(IF Len(signal) > 0 THEN signal ELSE ResultSentences(sentences))

InsightsOf(sentences) == InsightsAmong(SignalSentences(sentences), sentences)

_extract_key_insights(text) ==
    Of(InsightsOf, {Of(StripAll, {SplitSentences(text)})})

\* re.split(r'\n\s*\n', content): a separator is a newline, the whitespace after
\* it, up to the last newline of that whitespace
RECURSIVE SplitBlankLines(_)
SplitBlankLines(s) ==
    LET wsEnd(i) == i + RunLen("\\s", s, i + 1, Inf, FALSE)
        lastNl(i) == LastIn({j \in (i + 1)..wsEnd(i) : Char(s, j) = "\n"})
        seps == {i \in 1..Len(s) : Char(s, i) = "\n" /\ lastNl(i) > 0}
    IN  IF seps = {} THEN << s >>
        ELSE << SubSeq(s, 1, FirstIn(seps) - 1) >>
             \o SplitBlankLines(SubSeq(s, lastNl(FirstIn(seps)) + 1, Len(s)))

\* the texts that are not empty and have at least n words
WithWords(texts, n) ==
    SelectSeq(texts, LAMBDA text : text # "" /\ WordCount(text) >= n)

_split_into_paragraphs(content) ==
    WithWords(Of(StripAll, {SplitBlankLines(content)}), 10)

_split_into_sentences(content) ==
    WithWords(Of(StripAll, {SplitSentences(content)}), 5)

\* for refined_text, the refined text of the subsection
SubsectionOf(refined_text, persona_string, job_string) ==
    [refined_text |-> refined_text,
     relevance_score |-> _calculate_subsection_relevance(refined_text,
                                                         persona_string, job_string),
     key_insights |-> _extract_key_insights(refined_text)]

Subsection(text, persona_string, job_string) ==
    Of(LAMBDA refined_text : SubsectionOf(refined_text, persona_string, job_string),
       {_refine_text(text)})

Subsections(texts, persona_string, job_string) ==
    List([k \in 1..Len(texts) |-> Subsection(texts[k], persona_string, job_string)])

\* if relevance_score > 0.3
KeepSubsection(sub) == RLess(Hundredths(30), sub.relevance_score)

Kept(subsections) ==
    SelectSeq(subsections, KeepSubsection)

\* the paragraphs of at least min_subsection_length words, scored
ParagraphSubsections(content, persona_string, job_string) ==
    Of(LAMBDA texts : Subsections(texts, persona_string, job_string),
       {WithWords(_split_into_paragraphs(content), min_subsection_length)})

\* the sentence-based loop from sentence i on, current_subsection holding the
\* sentences first..(i - 1): the texts completed, a text being completed when
\* it holds min_subsection_length words
RECURSIVE GroupsFrom(_, _, _)
GroupsFrom(sentences, first, i) ==
    IF i > Len(sentences) THEN << >>
    ELSE IF WordCount(JoinSp(SubSeq(sentences, first, i))) >= min_subsection_length
         THEN << JoinSp(SubSeq(sentences, first, i)) >>
              \o GroupsFrom(sentences, i + 1, i + 1)
         ELSE GroupsFrom(sentences, first, i + 1)

SentenceGroups(sentences) == GroupsFrom(sentences, 1, 1)

SentenceSubsections(content, persona_string, job_string) ==
    Of(LAMBDA texts : Subsections(texts, persona_string, job_string),
       {Of(SentenceGroups, {_split_into_sentences(content)})})

\* as BestSubsections, without the sort
FirstSubsections(subsections) == Take(subsections, max_subsections_per_section)

\* subsections[:max_subsections_per_section], best first
BestSubsections(subsections) ==
    Take(StableSort(subsections, ScoreGreater), max_subsections_per_section)

\* as SubsectionsAmong, the sentence-based loop running in every case
WithSentenceSubsections(byParagraph, content, persona_string, job_string) ==
    byParagraph \o Kept(SentenceSubsections(content, persona_string, job_string))

\* the paragraph subsections, or the sentence ones when there is none
SubsectionsAmong(byParagraph, content, persona_string, job_string) ==
    IF Len(byParagraph) > 0 THEN byParagraph
    ELSE Kept(SentenceSubsections(content, persona_string, job_string))

_extract_subsections(content, persona_string, job_string) ==
    IF content = "" \/ WordCount(content) < min_subsection_length THEN << >>
    ELSE Of(BestSubsections,
            {Of(LAMBDA byParagraph :
                    SubsectionsAmong(byParagraph, content, persona_string,
                                     job_string),
                {Kept(ParagraphSubsections(content, persona_string,
                                           job_string))})})

\* doc_lookup[document_name]: the last document of that file name, or 0
DocLookup(documents_data, document_name) ==
    LastIn({d \in 1..Len(documents_data) :
               documents_data[d].file_name = document_name})

SubsectionRecord(section, sub) ==
    [document |-> section.document,
     section_title |-> section.section_title,
     refined_text |-> sub.refined_text,
     page_number |-> section.page_number,
     relevance_score |-> sub.relevance_score,
     key_insights |-> sub.key_insights]

SectionRecords(section, subs) ==
    List([k \in 1..Len(subs) |-> SubsectionRecord(section, subs[k])])

\* if section_content: the subsections of the content found
ContentSubsections(section_content, persona_string, job_string) ==
    IF section_content = "" THEN << >>
    ELSE _extract_subsections(section_content, persona_string, job_string)

\* for d, the index of the section's document in documents_data, or 0
SectionSubsectionsIn(section, documents_data, d, persona_string, job_string) ==
    IF d = 0 THEN << >>
    ELSE Of(LAMBDA subs : SectionRecords(section, subs),
            {Of(LAMBDA section_content :
                    ContentSubsections(section_content, persona_string, job_string),
                {_find_section_content(documents_data[d], section.section_title,
                                       section.page_number)})})

\* the records one extracted section contributes
SectionSubsections(section, documents_data, persona_string, job_string) ==
    SectionSubsectionsIn(section, documents_data,
                         DocLookup(documents_data, section.document),
                         persona_string, job_string)

\* as SubsectionRecords, without the sort
SectionOrderRecords(extracted, documents_data, persona_string, job_string) ==
    Flatten(List([i \in 1..Len(extracted) |->
                SectionSubsections(extracted[i], documents_data,
                                   persona_string, job_string)]))

SubsectionRecords(extracted, documents_data, persona_string, job_string) ==
    Of(LAMBDA records : StableSort(records, ScoreGreater),
       {Flatten(List([i \in 1..Len(extracted) |->
                        SectionSubsections(extracted[i], documents_data,
                                           persona_string, job_string)]))})

(***************************************************************************)
(* DocumentIntelligenceService: the inputs                                 *)
(*                                                                         *)
(* A file is [file_path, parse, pages]: parse is what parsing it does      *)
(* ("pages": the parser returns pages; "none": it returns no pages, as it  *)
(* does for a file it cannot open; "raise": an exception is raised inside  *)
(* the try block of _parse_single_document).                               *)
(*                                                                         *)
(* persona and job_to_be_done are [kind, text]: a plain string (kind       *)
(* "str"), or a dict whose 'role' / 'task' entry is text (kind "dict").    *)
(***************************************************************************)
Page(n, elements) == [page_number |-> n, elements |-> elements]

Heading1(text, page, y) == Element(text, page, y, 50, 24, TRUE)
Heading2(text, page, y) == Element(text, page, y, 50, 18, TRUE)
Body(text, page, y) == Element(text, page, y, 50, 12, FALSE)
Indented(text, page, y) == Element(text, page, y, 150, 12, FALSE)

\* 30 words, all of them words of the job description
DenseBody == "literature review" \o Rep(" literature review", 14)
\* 8 words, none of them a keyword
PlainBody == "plain filler words that say nothing at all"

\* Path(pdf_file).name
PathName(path) ==
    LET cuts == {i \in 1..Len(path) : Char(path, i) = "/"}
        last == IF cuts = {} THEN 0 ELSE CHOOSE i \in cuts : \A j \in cuts : i >= j
    IN  SubSeq(path, last + 1, Len(path))

\* The documents of the model.  Numbered and plain headings of several depths,
\* bodies with and without keywords, an element above the top of its page
\* (a negative y_position), a document without headings, two files of one name.
DocIntro ==
    << Page(1, << Heading1("1. Introduction", 1, 10), Body(DenseBody, 1, 40) >>) >>

DocNested ==
    << Page(1, << Heading1("1. Methodology", 1, 10),
                  Heading2("1.1 Research data", 1, 30),
                  Body(DenseBody, 1, 50) >>) >>

DocAbove ==
    << Page(1, << Heading1("1. Methodology", 1, 10) >>),
       Page(2, << Body(DenseBody, 2, -5), Body(PlainBody, 2, 20) >>),
       Page(3, << Heading1("2. Findings", 3, 10) >>) >>

DocShort ==
    << Page(1, << Heading1("1. Methodology", 1, 10),
                  Heading1("2. Findings", 1, 30),
                  Body(DenseBody, 1, 50) >>) >>

DocMany ==
    << Page(1, << Heading1("Computational notes", 1, 10),
                  Heading1("1.1.1.1 Dataset", 1, 20),
                  Heading1("1.1.1 Survey", 1, 30),
                  Heading1("Dataset", 1, 40),
                  Indented("1. " \o DenseBody, 1, 50) >>),
       Page(2, << Heading1("1.1 Approaches", 2, 10),
                  Heading1("Techniques", 2, 20),
                  Heading1("Summary", 2, 30) >>) >>

DocPlainPages ==
    << Page(1, << Body(DenseBody, 1, 10) >>),
       Page(2, << Body(PlainBody \o " " \o PlainBody, 2, 10) >>) >>

\* a line of 11pt text set in from the margin
Note(text, page, y) == Element(text, page, y, 150, 11, FALSE)

\* A document without headings: running text, a page without text, page
\* footers, and a short note whose heading score is exactly 1.5.
DocFooters ==
    << Page(1, << Body(DenseBody, 1, 10), Note("short note here", 1, 300),
                  Indented("Page 1", 1, 700) >>),
       Page(2, << >>),
       Page(3, << Body(PlainBody \o " " \o PlainBody, 3, 10),
                  Indented("page 3", 3, 700) >>) >>

\* sentences of 30 words: words of the persona, of the job, of both
PhdSentence == "phd" \o Rep(" phd", 29) \o "."
ReviewSentence == "review" \o Rep(" review", 29) \o "."
MixedSentence == "phd review" \o Rep(" phd review", 14) \o "."

\* Two sections: the first with six passages of 30 words and a closing sentence
\* without keywords, the second with one passage.
DocSurvey ==
    << Page(1, << Heading1("Literature survey", 1, 10),
                  Body(PhdSentence \o Rep(" " \o MixedSentence, 5)
                       \o " " \o PlainBody \o ".", 1, 40) >>),
       Page(2, << Heading1("Background", 2, 10),
                  Body(ReviewSentence, 2, 40) >>) >>

\* Running text and the same short note twice on one page: two elements of one
\* key (text[:50], page), each of heading score 1.5, the only two of their size.
DocRepeat ==
    << Page(1, << Body(DenseBody, 1, 10), Note("short note here", 1, 300),
                  Note("short note here", 1, 320) >>) >>

\* A heading, twenty entries of two letters and a page number: 21 elements of
\* 12pt, one of them a bare number.
DocList ==
    << Page(1, << Heading1("Inventory", 1, 10) >>
               \o List([k \in 1..20 |-> Body("a" \o Char(Lowers, k), 1, 20 + 10 * k)])
               \o << Body("7", 1, 700) >>) >>

\* A heading that names the job, and running text.
DocReview ==
    << Page(1, << Heading1("Literature review", 1, 10), Body(DenseBody, 1, 40) >>) >>

File(path, parse, pages) == [file_path |-> path, parse |-> parse, pages |-> pages]

FileCatalog ==
    << File("in/intro.pdf", "pages", DocIntro),
       File("in/broken.pdf", "raise", << >>),
       File("alt/intro.pdf", "pages", DocPlainPages),
       File("in/empty.pdf", "none", << >>),
       File("in/short.pdf", "pages", DocShort),
       File("in/nested.pdf", "pages", DocNested),
       File("in/above.pdf", "pages", DocAbove),
       File("in/many.pdf", "pages", DocMany),
       File("in/footers.pdf", "pages", DocFooters),
       File("in/survey.pdf", "pages", DocSurvey),
       File("in/repeat.pdf", "pages", DocRepeat),
       File("in/list.pdf", "pages", DocList),
       File("in/review.pdf", "pages", DocReview) >>

\* the files that lists of several files are made of: the first NumListFiles
NumListFiles == 2
MaxFiles == 2

FileOf(path) ==
    FileCatalog[CHOOSE k \in 1..Len(FileCatalog) : FileCatalog[k].file_path = path]

RECURSIVE SeqsOver(_, _)
SeqsOver(S, n) ==
    IF n = 0 THEN {<< >>}
    ELSE {Append(q, x) : q \in SeqsOver(S, n - 1), x \in S}

\* two files of one name in different directories, in both orders
SameNameLists ==
    {<< "in/intro.pdf", "alt/intro.pdf" >>, << "alt/intro.pdf", "in/intro.pdf" >>}

InputFileLists ==
    {<< FileCatalog[k].file_path >> : k \in 1..Len(FileCatalog)}
    \cup UNION {SeqsOver({FileCatalog[k].file_path : k \in 1..NumListFiles}, n) :
                   n \in 2..MaxFiles}
    \cup SameNameLists

Text(kind, text) == [kind |-> kind, text |-> text]

Profiles ==
    {[persona |-> Text(pk, "PhD Researcher in Computational Biology"),
      job |-> Text(jk, "Prepare a literature review")] :
        pk \in {"str", "dict"}, jk \in {"str", "dict"}}
    \cup {[persona |-> Text("dict", "Travel Planner"),
           job |-> Text("dict", "Plan a trip of 4 days")]}

(***************************************************************************)
(* DocumentIntelligenceService                                             *)
(***************************************************************************)
title_skip_patterns ==
    << Lit("page") \o << Sp1, D1 >>,
       << << "\\d", 1, 2 >>, << "[/-]", 1, 1 >>, << "\\d", 1, 2 >>,
          << "[/-]", 1, 1 >>, << "\\d", 2, 4 >> >> >>

title_skip_words == {"copyright", "version", "draft", "confidential"}

\* key=lambda e: (e.get('y_position', 0), e.get('x_position', 0))
TopFirst(a, b) ==
    \/ a.y_position < b.y_position
    \/ a.y_position = b.y_position /\ a.x_position < b.x_position

\* for text, the stripped text of the element in lower case
IsTitleText(e, text) ==
    /\ Len(text) >= 5
    /\ ~ReFullMatch(<< D1 >>, text, FALSE)
    /\ \A k \in 1..Len(title_skip_patterns) :
           ~ReMatch(title_skip_patterns[k], text, FALSE)
    /\ \A w \in title_skip_words : ~Contains(w, text)
    /\ \/ Len(text) > 10 /\ (e.font_size > 14 \/ e.is_bold)
       \/ Len(text) > 20

IsTitle(e) == IsTitleText(e, Lower(Strip(e.text)))

\* for k, the index of the first title candidate, or 0
TitleAt(elements, k) == IF k = 0 THEN "" ELSE Strip(elements[k].text)

\* for elements, the elements of the first page, top first
TitleAmong(elements) ==
    TitleAt(elements,
            FirstIn({k \in 1..MinOf(15, Len(elements)) : IsTitle(elements[k])}))

_extract_document_title(pages_data) ==
    IF Len(pages_data) = 0 THEN ""
    ELSE TitleAmong(StableSort(pages_data[1].elements, TopFirst))

DocumentData(file, analyzed_elements, headings) ==
    [file_path |-> file.file_path,
     file_name |-> PathName(file.file_path),
     title |-> _extract_document_title(file.pages),
     pages_data |-> file.pages,
     headings |-> headings,
     analyzed_elements |-> analyzed_elements]

ParsedDocument(file, analyzed_elements) ==
    Of(LAMBDA headings : DocumentData(file, analyzed_elements, headings),
       {filter_false_positives(detect_headings(analyzed_elements))})

\* text_analyzer.analyze_elements(text_elements) for each file of the
\* catalogue, computed once
AnalyzedCatalog ==
    List([k \in 1..Len(FileCatalog) |-> analyze_elements(FileCatalog[k].pages)])

AnalyzedElementsOf(file) ==
    AnalyzedCatalog[CHOOSE k \in 1..Len(FileCatalog) : FileCatalog[k] = file]

\* _parse_single_document: << >> for None, << document_data >> otherwise
_parse_single_document(file) ==
    IF file.parse = "raise" THEN << >>
    ELSE IF Len(file.pages) = 0 THEN << >>
    ELSE << ParsedDocument(file, AnalyzedElementsOf(file)) >>

ParseFile(path) == _parse_single_document(FileOf(path))

\* if doc_data: documents_data.append(doc_data)
AppendParsed(documents_data, doc_data) == documents_data \o doc_data

\* as NextFile, staying at a file that did not parse
RetryFailed(idx, doc_data) == IF doc_data = << >> THEN idx ELSE idx + 1

\* as LoopOver, leaving the loop once one file has been gone through
LoopLeftEarly(idx, pdf_files) == idx > 1

\* for pdf_file in pdf_files: the loop ends when every file has been gone
\* through, and the statements after it run only then
LoopOver(idx, pdf_files) == idx > Len(pdf_files)

\* the for loop over pdf_files goes on to the next file, parsed or not
NextFile(idx, doc_data) == idx + 1

Metadata(pdf_files, persona, job_to_be_done) ==
    [input_documents |-> List([i \in 1..Len(pdf_files) |-> PathName(pdf_files[i])]),
     persona |-> persona, job_to_be_done |-> job_to_be_done]

_build_result(pdf_files, persona, job_to_be_done, extracted_sections, subsection_analysis) ==
    [metadata |-> Metadata(pdf_files, persona, job_to_be_done),
     extracted_sections |-> extracted_sections,
     subsection_analysis |-> subsection_analysis]

_create_empty_result(pdf_files, persona, job_to_be_done) ==
    [metadata |-> Metadata(pdf_files, persona, job_to_be_done),
     extracted_sections |-> << >>,
     subsection_analysis |-> << >>]

\* persona.get('role', ''), job_to_be_done.get('task', ''): an AttributeError
\* for a plain string
HasGet(value) == value.kind = "dict"

\* as HandleException, letting the exception through
PropagateException(pdf_files, persona, job_to_be_done) ==
    [outcome |-> "raised", result |-> << >>]

\* the except clause of process_document_collection
HandleException(pdf_files, persona, job_to_be_done) ==
    [outcome |-> "returned",
     result |-> << _create_empty_result(pdf_files, persona, job_to_be_done) >>]

\* as NoneParsed, without the test
NeverNoneParsed(documents_data) == FALSE

\* if not documents_data
NoneParsed(documents_data) == Len(documents_data) = 0

Call(stage, file) == [stage |-> stage, file |-> file]

VARIABLES
    pdf_files,            \* the argument: the paths of the files
    persona,              \* the argument
    job_to_be_done,       \* the argument
    pc,                   \* where process_document_collection is
    idx,                  \* the index in pdf_files of the file the loop is at
    documents_data,
    relevant_sections,
    top_sections,         \* the local of extract_sections
    extracted_sections,
    subsection_analysis,
    outcome,              \* "running", "returned", or "raised"
    result,               \* << >> until the call returns, then << the result >>
    raised_in,            \* the stage an exception was raised in, or ""
    calls,                \* the calls made so far in this run, in order
    run,                  \* 1 in the first call of the method, 2 in the second
    first_run             \* << >>, then << the result of the first call >>

vars == << pdf_files, persona, job_to_be_done, pc, idx, documents_data,
           relevant_sections, top_sections, extracted_sections,
           subsection_analysis, outcome, result, raised_in, calls, run,
           first_run >>

\* as FreshDocumentsData, for a list kept on the service between calls
KeptDocumentsData(left_over) == left_over

\* documents_data = [] at the start of the call: a local, whatever list an
\* earlier call left
FreshDocumentsData(left_over) == << >>

Init ==
    /\ pdf_files \in InputFileLists
    /\ \E profile \in Profiles :
           persona = profile.persona /\ job_to_be_done = profile.job
    /\ pc = "parse"
    /\ idx = 1
    /\ documents_data = FreshDocumentsData(<< >>)
    /\ relevant_sections = << >>
    /\ top_sections = << >>
    /\ extracted_sections = << >>
    /\ subsection_analysis = << >>
    /\ outcome = "running"
    /\ result = << >>
    /\ raised_in = ""
    /\ calls = << >>
    /\ run = 1
    /\ first_run = << >>

\* one turn of the loop over pdf_files
ParseDocument ==
    /\ pc = "parse"
    /\ ~LoopOver(idx, pdf_files)
    /\ \E doc_data \in {ParseFile(pdf_files[idx])} :
           /\ documents_data' = AppendParsed(documents_data, doc_data)
           /\ idx' = NextFile(idx, doc_data)
    /\ calls' = Append(calls, Call("parse", idx))
    /\ UNCHANGED << pdf_files, persona, job_to_be_done, run, first_run, pc, relevant_sections,
                    top_sections, extracted_sections, subsection_analysis,
                    outcome, result, raised_in >>

\* the loop is over and nothing was parsed
NoDocuments ==
    /\ pc = "parse"
    /\ LoopOver(idx, pdf_files)
    /\ NoneParsed(documents_data)
    /\ result' = << _create_empty_result(pdf_files, persona, job_to_be_done) >>
    /\ outcome' = "returned"
    /\ pc' = "done"
    /\ UNCHANGED << pdf_files, persona, job_to_be_done, run, first_run, idx, documents_data,
                    relevant_sections, top_sections, extracted_sections,
                    subsection_analysis, raised_in, calls >>

\* relevance_analyzer.analyze_relevance, and the except clause when it raises
AnalyzeRelevance ==
    /\ pc = "parse"
    /\ LoopOver(idx, pdf_files)
    /\ ~NoneParsed(documents_data)
    /\ calls' = Append(calls, Call("relevance", 0))
    /\ IF HasGet(persona) /\ HasGet(job_to_be_done)
       THEN /\ \E persona_string \in {Lower(persona.text)},
                    job_string \in {Lower(job_to_be_done.text)} :
                    relevant_sections' = ScoredSections(documents_data,
                                             persona_string, job_string)
            /\ pc' = "extract"
            /\ UNCHANGED << outcome, result, raised_in >>
       ELSE \E handled \in {HandleException(pdf_files, persona, job_to_be_done)} :
                /\ raised_in' = "relevance"
                /\ outcome' = handled.outcome
                /\ result' = handled.result
                /\ pc' = "done"
                /\ UNCHANGED relevant_sections
    /\ UNCHANGED << pdf_files, persona, job_to_be_done, run, first_run, idx, documents_data,
                    top_sections, extracted_sections, subsection_analysis >>

\* section_extractor.extract_sections
ExtractSections ==
    /\ pc = "extract"
    /\ \E persona_string \in {Lower(persona.text)},
          job_string \in {Lower(job_to_be_done.text)} :
          \E scored \in {WithFinalScores(relevant_sections, persona_string,
                                         job_string)} :
              \E top \in {TopSections(scored)} :
                  /\ relevant_sections' = scored
                  /\ top_sections' = top
                  /\ extracted_sections' = FormatSections(top)
    /\ calls' = Append(calls, Call("extract", 0))
    /\ pc' = "subsections"
    /\ UNCHANGED << pdf_files, persona, job_to_be_done, run, first_run, idx, documents_data,
                    subsection_analysis, outcome, result, raised_in >>

\* subsection_analyzer.analyze_subsections
AnalyzeSubsections ==
    /\ pc = "subsections"
    /\ \E persona_string \in {Lower(persona.text)},
          job_string \in {Lower(job_to_be_done.text)} :
          subsection_analysis' = SubsectionRecords(extracted_sections,
                                     documents_data, persona_string, job_string)
    /\ calls' = Append(calls, Call("subsections", 0))
    /\ pc' = "build"
    /\ UNCHANGED << pdf_files, persona, job_to_be_done, run, first_run, idx, documents_data,
                    relevant_sections, top_sections, extracted_sections,
                    outcome, result, raised_in >>

\* _build_result and the return
BuildResult ==
    /\ pc = "build"
    /\ result' = << _build_result(pdf_files, persona, job_to_be_done,
                                  extracted_sections, subsection_analysis) >>
    /\ outcome' = "returned"
    /\ pc' = "done"
    /\ UNCHANGED << pdf_files, persona, job_to_be_done, run, first_run, idx, documents_data,
                    relevant_sections, top_sections, extracted_sections,
                    subsection_analysis, raised_in, calls >>

\* the caller calls process_document_collection again, on the same service
\* object and with the same arguments: every local of the method starts anew
Rerun ==
    /\ pc = "done"
    /\ run = 1
    /\ first_run' = result
    /\ run' = 2
    /\ pc' = "parse"
    /\ idx' = 1
    /\ documents_data' = FreshDocumentsData(documents_data)
    /\ relevant_sections' = << >>
    /\ top_sections' = << >>
    /\ extracted_sections' = << >>
    /\ subsection_analysis' = << >>
    /\ outcome' = "running"
    /\ result' = << >>
    /\ raised_in' = ""
    /\ calls' = << >>
    /\ UNCHANGED << pdf_files, persona, job_to_be_done >>

Next ==
    \/ ParseDocument
    \/ NoDocuments
    \/ AnalyzeRelevance
    \/ ExtractSections
    \/ AnalyzeSubsections
    \/ BuildResult
    \/ Rerun

Spec == Init /\ [][Next]_vars

(***************************************************************************)
(* Properties                                                              *)
(***************************************************************************)
Called(stage) == \E c \in 1..Len(calls) : calls[c].stage = stage

Returned == pc = "done" /\ outcome = "returned" /\ Len(result) = 1

\* the files of pdf_files the loop has been through
Attempted == 1..(idx - 1)

ParseFails(i) == FileOf(pdf_files[i]).parse \in {"raise", "none"}

\* the sections extract_sections keeps: relevance_score >= 0.2
Survivors ==
    SelectSeq(relevant_sections,
              LAMBDA sec : RLeq(Hundredths(20), sec.relevance_score))

\* C1: persona and job_to_be_done given as plain strings: whenever a document
\* parsed and one of its sections scores at least 0.2 under those strings, the
\* extracted_sections of the result returned is not empty.
PlainStringsRankSections ==
    (/\ pc = "done"
     /\ persona.kind = "str" /\ job_to_be_done.kind = "str"
     /\ Len(documents_data) > 0
     /\ \E sec \in SeqRange(ScoredSections(documents_data, Lower(persona.text),
                                           Lower(job_to_be_done.text))) :
            RLeq(Hundredths(20), sec.relevance_score))
    => /\ Returned
       /\ result[1].extracted_sections # << >>

\* C2: in the list extract_sections returns, importance_rank is 1..k in list
\* order with k <= 5, and the k ranked sections are the k sections of highest
\* final_score among those that passed the relevance filters: no unranked
\* survivor has a higher final_score than a ranked one.
RanksAreTopByFinalScore ==
    Called("extract") =>
        /\ Len(extracted_sections) <= 5
        /\ Len(extracted_sections) = MinOf(Len(Survivors), 5)
        /\ \A i \in 1..Len(extracted_sections) :
            /\ extracted_sections[i].importance_rank = i
            \* the section ranked i is top_sections[i], one of the survivors
            /\ extracted_sections[i].document = top_sections[i].document
            /\ extracted_sections[i].page_number = top_sections[i].page_number
            /\ extracted_sections[i].section_title
                 = _clean_section_title(top_sections[i].section_title)
            /\ Cardinality({j \in 1..Len(extracted_sections) :
                               top_sections[j] = top_sections[i]})
                 <= Cardinality({j \in 1..Len(Survivors) :
                                    Survivors[j] = top_sections[i]})
            \* ranked in descending order of final_score
            /\ i > 1 => RLeq(top_sections[i].final_score,
                             top_sections[i - 1].final_score)
            \* fewer than i survivors have a final_score above the i-th's
            /\ Cardinality({j \in 1..Len(Survivors) :
                               RLess(top_sections[i].final_score,
                                     Survivors[j].final_score)}) < i

\* more than five survivors, one of them unranked, and the order by final score
\* is not the order by relevance score
MoreSurvivorsThanRanks ==
    /\ Called("extract")
    /\ Len(Survivors) > 5
    /\ Len(extracted_sections) = 5
    /\ \E i, j \in 1..Len(Survivors) :
          /\ i < j
          /\ RLess(Survivors[i].final_score, Survivors[j].final_score)
          /\ RLess(Survivors[j].relevance_score, Survivors[i].relevance_score)
             \/ REq(Survivors[j].relevance_score, Survivors[i].relevance_score)

\* C3: every section the section ranker scores has a final_score in [0, 1],
\* whatever bonuses were added to its relevance score.
FinalScoreWithinUnit ==
    Called("extract") =>
        /\ \A i \in 1..Len(Survivors) :
              /\ RLeq(Rat(0, 1), Survivors[i].final_score)
              /\ RLeq(Survivors[i].final_score, Rat(1, 1))
        /\ \A i \in 1..Len(top_sections) :
              /\ RLeq(Rat(0, 1), top_sections[i].final_score)
              /\ RLeq(top_sections[i].final_score, Rat(1, 1))

\* a section whose relevance score and bonuses add up to more than 1 was scored
BonusesExceedOne ==
    /\ Called("extract")
    /\ \E i \in 1..Len(Survivors) :
          /\ RLess(Rat(1, 1),
                   RAddHundredths(Survivors[i].relevance_score,
                                  FinalBonus(Survivors[i], Lower(persona.text),
                                             Lower(job_to_be_done.text))))
          /\ REq(Survivors[i].final_score, Rat(1, 1))

\* analyze_relevance has segmented the documents parsed
Segmented == Called("relevance") /\ raised_in = ""

\* the elements of a span, as a set of << page index, element index >>
SpanSet(sec) == {sec.span[k] : k \in 1..Len(sec.span)}

\* sec_b's heading is at the level of sec_a's or at a shallower one (page
\* sections are all of one level)
NotDeeper(sec_b, sec_a) ==
    LevelNum(sec_b.section.heading_level) <= LevelNum(sec_a.section.heading_level)

\* C4 as stated: any two sections of a document hold disjoint sets of elements.
AllSectionsDisjoint ==
    Segmented => \A d \in 1..Len(documents_data) :
        LET spans == List(DocSectionSpans(documents_data[d]))
        IN  \A a, b \in 1..Len(spans) :
                a < b => SpanSet(spans[a]) \cap SpanSet(spans[b]) = {}

\* C4, amended: two sections of a document hold disjoint sets of elements when
\* the later one's heading is not deeper than the earlier one's (a section
\* holds the elements of the deeper sections under it); the page sections of a
\* document without headings are disjoint.
SiblingSectionsDisjoint ==
    Segmented => \A d \in 1..Len(documents_data) :
        LET spans == List(DocSectionSpans(documents_data[d]))
        IN  \A a, b \in 1..Len(spans) :
                (a < b /\ NotDeeper(spans[b], spans[a]))
                => SpanSet(spans[a]) \cap SpanSet(spans[b]) = {}

\* the relevance stage has segmented a document with two headings of one level
\* on one page, the second of them followed by text
SiblingsSegmented ==
    /\ Segmented
    /\ \E d \in 1..Len(documents_data) :
          /\ Len(documents_data[d].headings) > 0
          /\ \E a, b \in 1..Len(DocSectionSpans(documents_data[d])) :
                /\ a < b
                /\ NotDeeper(DocSectionSpans(documents_data[d])[b],
                             DocSectionSpans(documents_data[d])[a])
                /\ DocSectionSpans(documents_data[d])[a].section.page_number
                     = DocSectionSpans(documents_data[d])[b].section.page_number
                /\ SpanSet(DocSectionSpans(documents_data[d])[a]) # {}
                /\ Cardinality(SpanSet(DocSectionSpans(documents_data[d])[b])) > 1

\* the position of a heading or an element: page, then vertical position
PosLeq(page_a, y_a, page_b, y_b) ==
    page_a < page_b \/ (page_a = page_b /\ y_a <= y_b)

\* the element at << p, i >> is in the span of a section of the document
Covered(doc_data, p, i) ==
    \E k \in 1..Len(DocSectionSpans(doc_data)) :
        << p, i >> \in SpanSet(DocSectionSpans(doc_data)[k])

\* C5: in a document with headings every element whose (page, vertical
\* position) lies between the first and the last heading is in the content of a
\* section; in a document without headings every element is.
SectionsCoverElements ==
    Segmented => \A d \in 1..Len(documents_data) :
        \A p \in 1..Len(documents_data[d].pages_data) :
            \A i \in 1..Len(documents_data[d].pages_data[p].elements) :
                (\/ Len(documents_data[d].headings) = 0
                 \/ /\ PosLeq(documents_data[d].headings[1].page,
                              documents_data[d].headings[1].y_position,
                              documents_data[d].pages_data[p].page_number,
                              documents_data[d].pages_data[p].elements[i].y_position)
                    /\ PosLeq(documents_data[d].pages_data[p].page_number,
                              documents_data[d].pages_data[p].elements[i].y_position,
                              documents_data[d].headings[
                                  Len(documents_data[d].headings)].page,
                              documents_data[d].headings[
                                  Len(documents_data[d].headings)].y_position))
                => Covered(documents_data[d], p, i)

\* the merged headings of a list of strategy results, without the order of the
\* list of methods and the name of the first method
Merged(strategy_results) ==
    {[h EXCEPT !.detection_method = "",
               !.detection_methods = {h.detection_methods[k] :
                                         k \in 1..Len(h.detection_methods)}] :
        h \in SeqRange(_combine_strategies(strategy_results))}

Reordered(strategy_results, order) ==
    << strategy_results[order[1]], strategy_results[order[2]],
       strategy_results[order[3]] >>

\* C6: _combine_strategies gives the same merged headings, with the same
\* confidence and recorded fields, for every order of the three strategy result
\* lists.
FusionIgnoresStrategyOrder ==
    \A d \in 1..Len(documents_data) :
        \A order \in Permutations({1, 2, 3}) :
            Merged(Reordered(StrategyResults(documents_data[d].analyzed_elements),
                             order))
            = Merged(StrategyResults(documents_data[d].analyzed_elements))

\* the records of subsection_analysis that name the i-th ranked section
RecordsOf(i) ==
    {k \in 1..Len(subsection_analysis) :
        /\ subsection_analysis[k].document = extracted_sections[i].document
        /\ subsection_analysis[k].section_title = extracted_sections[i].section_title
        /\ subsection_analysis[k].page_number = extracted_sections[i].page_number}

\* C7: a ranked section whose segmented content has fewer than 30 words has no
\* record in subsection_analysis.
ShortSectionsYieldNoSubsection ==
    Called("subsections") =>
        \A i \in 1..Len(extracted_sections) :
            WordCount(top_sections[i].content) < 30 => RecordsOf(i) = {}

EmptyResult ==
    /\ Returned
    /\ result[1].extracted_sections = << >>
    /\ result[1].subsection_analysis = << >>

\* C8 as stated: no exception reaches the caller, and whenever a stage raised,
\* the parsing of a document included, the result returned is the empty
\* structure.
AnyFailureEmptiesResult ==
    /\ outcome # "raised"
    /\ (/\ pc = "done"
        /\ \/ raised_in # ""
           \/ \E i \in Attempted : FileOf(pdf_files[i]).parse = "raise")
       => EmptyResult

\* C8, amended: no exception reaches the caller; whenever a stage after the
\* parsing raised, the result returned is the empty structure, never a partly
\* filled one.  (An exception in the parsing of a document is caught in
\* _parse_single_document and only leaves that document out.)
LaterFailureEmptiesResult ==
    /\ outcome # "raised"
    /\ pc = "done" => Returned
    /\ raised_in # "" => pc = "done" /\ EmptyResult

\* the relevance stage raised on parsed documents and the call returned
RaisedAfterParsing ==
    /\ raised_in = "relevance"
    /\ Len(documents_data) > 0
    /\ Returned

\* the parse calls made for the i-th file
ParseCalls(i) ==
    {c \in 1..Len(calls) : calls[c].stage = "parse" /\ calls[c].file = i}

\* the paths of the files gone through that parse, in order
ParsedPaths ==
    SelectSeq(SubSeq(pdf_files, 1, idx - 1),
              LAMBDA path : FileOf(path).parse = "pages")

SameSection(sec_a, sec_b) ==
    /\ sec_a.document = sec_b.document
    /\ sec_a.section_title = sec_b.section_title
    /\ sec_a.page_number = sec_b.page_number
    /\ sec_a.content = sec_b.content
    /\ sec_a.relevance_score = sec_b.relevance_score

\* C9: a document whose parsing fails (the parser raises or gives no pages)
\* contributes nothing, every other document of the list is parsed and
\* analysed, and the parsing of each document is attempted once.
FailedParseLeavesOthers ==
    \* one attempt for each file gone through, none for the others
    /\ \A i \in 1..Len(pdf_files) :
          Cardinality(ParseCalls(i)) = IF i \in Attempted THEN 1 ELSE 0
    \* documents_data holds the files that parse, and only them
    /\ Len(documents_data) = Len(ParsedPaths)
    /\ \A d \in 1..Len(documents_data) :
          /\ documents_data[d].file_path = ParsedPaths[d]
          /\ documents_data[d].pages_data = FileOf(ParsedPaths[d]).pages
    \* every section analysed is a section of a parsed document
    /\ LET contents ==
                List([d \in 1..Len(documents_data) |->
                         {sec.content :
                             sec \in SeqRange(_extract_document_sections(
                                                  documents_data[d]))}])
       IN  \A i \in 1..Len(relevant_sections) :
               \E d \in 1..Len(documents_data) :
                   /\ relevant_sections[i].document = documents_data[d].file_name
                   /\ relevant_sections[i].content \in contents[d]
    \* once the relevance stage is through, the sections of every parsed
    \* document that pass its threshold are among the sections analysed
    /\ (Called("relevance") /\ raised_in = "") =>
          \A d \in 1..Len(documents_data) :
              \A sec \in SeqRange(DocRelevantSections(documents_data[d],
                                      PersonaKeywords(Lower(persona.text)),
                                      JobKeywords(Lower(job_to_be_done.text)))) :
                  \E i \in 1..Len(relevant_sections) :
                      SameSection(relevant_sections[i], sec)

\* a list with a file that fails and a file that parses went through the
\* relevance stage, and sections of the one that parses were analysed
OneFailedOneAnalysed ==
    /\ Called("relevance") /\ raised_in = ""
    /\ \E i \in 1..Len(pdf_files) : ParseFails(i)
    /\ \E i \in 1..Len(pdf_files) : ~ParseFails(i)
    /\ Len(relevant_sections) > 0

\* C10: when no document of the list parses, the call returns a result whose
\* extracted_sections and subsection_analysis are empty, no ranking stage
\* having run and nothing having failed.
NothingParsedEmptyResult ==
    (idx > Len(pdf_files) /\ Len(documents_data) = 0) =>
        /\ ~Called("relevance") /\ ~Called("extract") /\ ~Called("subsections")
        /\ raised_in = "" /\ outcome # "raised"
        /\ pc \in {"parse", "done"}
        /\ pc = "done" => EmptyResult

\* a list of two files, neither of which parses, has been processed
NothingParsedReturned ==
    /\ pc = "done"
    /\ Len(pdf_files) > 1
    /\ \A i \in 1..Len(pdf_files) : ParseFails(i)
    /\ \E i \in 1..Len(pdf_files) : FileOf(pdf_files[i]).parse = "raise"

HeadingScoreNeverNegative ==
    \A d \in 1..Len(documents_data) :
        /\ Len(documents_data[d].analyzed_elements)
             = Len(AllElements(documents_data[d].pages_data))
        /\ \A i \in 1..Len(documents_data[d].analyzed_elements) :
              documents_data[d].analyzed_elements[i].heading_score >= 0

\* an element whose text matches an exclusion pattern and whose bonuses add up
\* to less than the penalty has been enriched
PenaltyExceedsBonuses ==
    \E d \in 1..Len(documents_data) :
        \E i \in 1..Len(documents_data[d].analyzed_elements) :
            /\ _matches_exclude_patterns(
                   Strip(documents_data[d].analyzed_elements[i].text))
            /\ RawHeadingScore(documents_data[d].analyzed_elements[i],
                   Strip(documents_data[d].analyzed_elements[i].text),
                   FontSizes(AllElements(documents_data[d].pages_data))) < 0
            /\ documents_data[d].analyzed_elements[i].heading_score = 0

\* the heading candidates of a parsed document, before the filter
Candidates(doc_data) == detect_headings(doc_data.analyzed_elements)

\* C13: a heading candidate whose merged confidence is exactly 0.3 is not among
\* the headings filter_false_positives returns; every heading it returns has a
\* confidence above 0.3.
ConfidenceAtThresholdRemoved ==
    \A d \in 1..Len(documents_data) :
        LET candidates == List(Candidates(documents_data[d]))
        IN  /\ \A k \in 1..Len(candidates) :
                  candidates[k].confidence = 300 =>
                      \A j \in 1..Len(documents_data[d].headings) :
                          documents_data[d].headings[j] # candidates[k]
            /\ \A j \in 1..Len(documents_data[d].headings) :
                  documents_data[d].headings[j].confidence > 300

\* a candidate of confidence exactly 0.3 that the filter's other tests accept
\* (three characters or more, not a number, no boilerplate marker) went
\* through the filter
CandidateAtThreshold ==
    \E d \in 1..Len(documents_data) :
        \E k \in 1..Len(Candidates(documents_data[d])) :
            /\ Candidates(documents_data[d])[k].confidence = 300
            /\ KeepAtThreshold(Candidates(documents_data[d])[k],
                               Strip(Candidates(documents_data[d])[k].text))

\* the indices of the pages that hold an element with text, in page order
TextPages(pages_data) ==
    SortedSeq({p \in 1..Len(pages_data) :
                  \E i \in 1..Len(pages_data[p].elements) :
                      Strip(pages_data[p].elements[i].text) # ""})

\* the texts of the elements of a page, in element order
PageTexts(page) == [i \in 1..Len(page.elements) |-> page.elements[i].text]

\* C14: a document without detected headings is segmented into one section for
\* each page that holds text, in page order, titled "Page N" for the page's
\* number N, its content the texts of the page's elements in element order
\* joined by single spaces; a page without text gives no section.
PagesBecomeSections ==
    \A d \in 1..Len(documents_data) :
        Len(documents_data[d].headings) = 0 =>
            LET pages == documents_data[d].pages_data
                secs  == _extract_document_sections(documents_data[d])
                tp    == TextPages(pages)
            IN  /\ Len(secs) = Len(tp)
                /\ \A k \in 1..Len(tp) :
                      /\ secs[k].section_title
                           = "Page " \o Char(Digits, pages[tp[k]].page_number + 1)
                      /\ secs[k].page_number = pages[tp[k]].page_number
                      /\ secs[k].content = JoinSp(PageTexts(pages[tp[k]]))
                      \* the section analyze_relevance scored
                      /\ Segmented =>
                            \E i \in 1..Len(relevant_sections) :
                                /\ relevant_sections[i].document
                                     = documents_data[d].file_name
                                /\ relevant_sections[i].section_title
                                     = secs[k].section_title
                                /\ relevant_sections[i].page_number
                                     = secs[k].page_number
                                /\ relevant_sections[i].content = secs[k].content

\* the relevance stage segmented a document without headings that has a page
\* without text between two pages with several elements
HeadinglessSegmented ==
    /\ Segmented
    /\ \E d \in 1..Len(documents_data) :
          /\ Len(documents_data[d].headings) = 0
          /\ Len(TextPages(documents_data[d].pages_data)) > 1
          /\ \E p \in 2..(Len(documents_data[d].pages_data) - 1) :
                /\ Len(documents_data[d].pages_data[p].elements) = 0
                /\ Len(documents_data[d].pages_data[p - 1].elements) > 1
                /\ Len(documents_data[d].pages_data[p + 1].elements) > 1
    /\ Len(relevant_sections) > 1

\* C15: the list analyze_subsections returns is in non-increasing order of
\* relevance_score, across all sections and documents; the result returned
\* holds that list.
SubsectionsSortedByScore ==
    /\ \A i, j \in 1..Len(subsection_analysis) :
          i < j => RLeq(subsection_analysis[j].relevance_score,
                        subsection_analysis[i].relevance_score)
    /\ (Returned /\ raised_in = "" /\ Called("subsections")) =>
          result[1].subsection_analysis = subsection_analysis

\* the records of a section of lower rank come before those of a section of
\* higher rank, with a higher score
LowerRankScoresHigher ==
    /\ Called("subsections")
    /\ \E a, b \in 1..Len(extracted_sections) :
          /\ a < b
          /\ \E i \in RecordsOf(b), j \in RecordsOf(a) :
                /\ i < j
                /\ RLess(subsection_analysis[j].relevance_score,
                         subsection_analysis[i].relevance_score)

\* the records the i-th extracted section contributes to subsection_analysis
Contribution(i) ==
    SectionSubsections(extracted_sections[i], documents_data,
                       Lower(persona.text), Lower(job_to_be_done.text))

\* the content analyze_subsections finds for the i-th extracted section
FoundContent(i) ==
    IF DocLookup(documents_data, extracted_sections[i].document) = 0 THEN ""
    ELSE _find_section_content(
             documents_data[DocLookup(documents_data,
                                      extracted_sections[i].document)],
             extracted_sections[i].section_title,
             extracted_sections[i].page_number)

\* the passages of a content that pass the threshold, in the order of the
\* text: the paragraphs, or the runs of sentences when no paragraph passes
PassagesOf(content, persona_string, job_string) ==
    IF WordCount(content) < 30 THEN << >>
    ELSE SubsectionsAmong(
             Kept(ParagraphSubsections(content, persona_string, job_string)),
             content, persona_string, job_string)

SurvivingPassages(i) ==
    PassagesOf(FoundContent(i), Lower(persona.text), Lower(job_to_be_done.text))

\* kept are the best of the passages surv: at most 5 of them, each one of surv,
\* fewer than k of surv scoring above the k-th
BestOf(kept, surv) ==
    /\ Len(kept) <= 5
    /\ Len(kept) = MinOf(Len(surv), 5)
    /\ \A k \in 1..Len(kept) :
          /\ \E j \in 1..Len(surv) :
                /\ surv[j].refined_text = kept[k].refined_text
                /\ surv[j].relevance_score = kept[k].relevance_score
          /\ Cardinality({j \in 1..Len(surv) :
                             RLess(kept[k].relevance_score,
                                   surv[j].relevance_score)}) < k

\* C16: an extracted section contributes at most 5 records to
\* subsection_analysis; they are the highest-scoring passages of the section
\* among those that pass the threshold (no passage left out scores higher than
\* one kept), and every record has a relevance_score above 0.3.
SectionKeepsBestFive ==
    Returned =>
        LET contributions ==
                List([i \in 1..Len(extracted_sections) |-> List(Contribution(i))])
            passages ==
                List([i \in 1..Len(extracted_sections) |->
                         List(SurvivingPassages(i))])
        IN  /\ Len(subsection_analysis)
                 = SumSeq([i \in 1..Len(extracted_sections) |->
                              Len(contributions[i])])
            /\ \A k \in 1..Len(subsection_analysis) :
                  RLess(Hundredths(30), subsection_analysis[k].relevance_score)
            /\ \A i \in 1..Len(extracted_sections) :
                  /\ BestOf(contributions[i], passages[i])
                  /\ \A k \in 1..Len(contributions[i]) :
                        contributions[i][k] \in SeqRange(subsection_analysis)

\* a section with more than five passages above the threshold, the first of
\* them scoring less than the later ones
SixPassagesSurvive ==
    /\ Called("subsections")
    /\ \E i \in 1..Len(extracted_sections) :
          LET surv == List(SurvivingPassages(i))
          IN  /\ Len(surv) > 5
              /\ Len(Contribution(i)) = 5
              /\ \A j \in 2..Len(surv) :
                    RLess(surv[1].relevance_score, surv[j].relevance_score)

\* C17: every element the pattern strategy matches has, in the output of
\* detect_headings, the level of the depth of its numbering ("1 " H1, "1.1 "
\* H2, "1.1.1 " H3, "1.1.1.1" H4), also when the score or the font strategy
\* detected it too.
PatternDepthIsLevel ==
    \A d \in 1..Len(documents_data) :
        \A k \in 1..Len(Candidates(documents_data[d])) :
            PatternLevel(Candidates(documents_data[d])[k].text) > 0 =>
                Candidates(documents_data[d])[k].level
                  = LevelName(PatternLevel(Candidates(documents_data[d])[k].text))

\* the i-th ranked section comes from a heading of the document that
\* analyze_subsections looks up for it
FromHeading(i) ==
    /\ DocLookup(documents_data, top_sections[i].document) > 0
    /\ \E k \in 1..Len(documents_data[DocLookup(documents_data,
                              top_sections[i].document)].headings) :
          /\ documents_data[DocLookup(documents_data,
                 top_sections[i].document)].headings[k].text
               = top_sections[i].section_title
          /\ documents_data[DocLookup(documents_data,
                 top_sections[i].document)].headings[k].page
               = top_sections[i].page_number

\* C18: for every extracted section that comes from a detected heading,
\* analyze_subsections finds that heading again in the heading list of the
\* document (same normalized text, same page) and takes the content the
\* heading bounds, not the text of the whole page.
RankedHeadingRelocated ==
    Called("subsections") =>
        \A i \in 1..Len(extracted_sections) :
            FromHeading(i) =>
                TargetHeading(documents_data[DocLookup(documents_data,
                                  extracted_sections[i].document)],
                              extracted_sections[i].section_title,
                              extracted_sections[i].page_number) > 0

PosBefore(page_a, y_a, page_b, y_b) ==
    page_a < page_b \/ (page_a = page_b /\ y_a < y_b)

\* the elements from the heading h on and before the heading n (n = 0: to the
\* end of the document), by page and vertical position
ElementsBetween(pages_data, headings, h, n) ==
    {<< p, i >> \in UNION {{p} \X (1..Len(pages_data[p].elements)) :
                              p \in 1..Len(pages_data)} :
        /\ PosLeq(headings[h].page, headings[h].y_position,
                  pages_data[p].page_number, pages_data[p].elements[i].y_position)
        /\ n > 0 => PosBefore(pages_data[p].page_number,
                              pages_data[p].elements[i].y_position,
                              headings[n].page, headings[n].y_position)}

\* the first heading after h whose level is not deeper than h's, or 0
NextBoundary(headings, h) ==
    FirstIn({n \in (h + 1)..Len(headings) :
                LevelNum(headings[n].level) <= LevelNum(headings[h].level)})

\* C19: the section of a heading h holds exactly the elements e with
\* h.start <= (e.page, e.y) < n.start, n being the first later heading whose
\* level is <= h's, or every element from h.start on when there is no such n.
SectionHoldsElementsInRange ==
    Segmented => \A d \in 1..Len(documents_data) :
        \A h \in 1..Len(documents_data[d].headings) :
            SpanSet(AllSectionSpans(documents_data[d].headings,
                                    documents_data[d].pages_data)[h])
            = ElementsBetween(documents_data[d].pages_data,
                              documents_data[d].headings, h,
                              NextBoundary(documents_data[d].headings, h))

\* C20: no stage changes what an earlier stage handed over: the pages and
\* elements are those the parser returned, and the section records
\* analyze_relevance returned are the same, field for field, after
\* extract_sections and analyze_subsections have run.
HandedOverRecordsUnchanged ==
    /\ \A d \in 1..Len(documents_data) :
          documents_data[d].pages_data = FileOf(documents_data[d].file_path).pages
    /\ Called("extract") =>
          relevant_sections = ScoredSections(documents_data, Lower(persona.text),
                                             Lower(job_to_be_done.text))

\* the stage of the k-th call of a run over n files that goes through every
\* stage
StageAt(k, n) ==
    IF k <= n THEN "parse"
    ELSE IF k = n + 1 THEN "relevance"
    ELSE IF k = n + 2 THEN "extract"
    ELSE "subsections"

\* C21: within one run the documents are parsed one after the other in the
\* order of pdf_files, each once; relevance scoring, section ranking and
\* subsection extraction are called only after every document has been parsed
\* or skipped, in that order.
StagesInOrder ==
    /\ Len(calls) <= Len(pdf_files) + 3
    /\ \A k \in 1..Len(calls) :
          /\ calls[k].stage = StageAt(k, Len(pdf_files))
          /\ calls[k].file = IF k <= Len(pdf_files) THEN k ELSE 0
    /\ Called("relevance") => idx = Len(pdf_files) + 1

\* a run over two files went through the three stages after the parsing
TwoFilesThroughAllStages ==
    /\ Len(pdf_files) = 2
    /\ Len(calls) = 5
    /\ calls[5].stage = "subsections"

\* the names of the strategies, in the order detect_headings passes their
\* results
StrategyNames == << "score", "pattern", "font_cluster" >>

\* the strategies with a candidate of the key of heading
FoundBy(results, heading) ==
    {s \in 1..3 : \E j \in 1..Len(results[s]) :
                      HeadingKey(results[s][j]) = HeadingKey(heading)}

\* the confidence of the first candidate of the key of heading
BaseConfidence(results, heading) ==
    LET s == CHOOSE s \in FoundBy(results, heading) :
                 \A t \in FoundBy(results, heading) : s <= t
        at == {j \in 1..Len(results[s]) :
                  HeadingKey(results[s][j]) = HeadingKey(heading)}
    IN  results[s][CHOOSE j \in at : \A i \in at : j <= i].confidence

\* C22: a fused heading's confidence is min(1.0, base confidence + 0.2 for each
\* additional distinct strategy that detected its key), and detection_methods
\* lists each contributing strategy once; candidates of one strategy that share
\* a key do not raise the confidence.
FusionCountsDistinctStrategies ==
    \A d \in 1..Len(documents_data) :
        LET results ==
                List([s \in 1..3 |->
                         List(StrategyResults(documents_data[d].analyzed_elements)[s])])
            candidates == List(Candidates(documents_data[d]))
        IN  \A k \in 1..Len(candidates) :
                /\ candidates[k].confidence
                     = MinOf(1000, BaseConfidence(results, candidates[k])
                                   + 200 * (Cardinality(FoundBy(results, candidates[k])) - 1))
                /\ Len(candidates[k].detection_methods)
                     = Cardinality(FoundBy(results, candidates[k]))
                /\ SeqRange(candidates[k].detection_methods)
                     = {StrategyNames[s] : s \in FoundBy(results, candidates[k])}

\* C23: the text-pattern component _analyze_text_patterns adds to the heading
\* score of an element (pattern_score, in hundredths) is between 0 and 1.5.
PatternScoreWithinBonus ==
    \A d \in 1..Len(documents_data) :
        \A i \in 1..Len(documents_data[d].analyzed_elements) :
            /\ documents_data[d].analyzed_elements[i].pattern_score >= 0
            /\ documents_data[d].analyzed_elements[i].pattern_score <= 150

boilerplate_words ==
    {"page", "copyright", "draft", "confidential", "version", "date", "author"}

\* C25: filter_false_positives keeps every heading whose text has at least 3
\* characters, is not a bare integer, contains none of the boilerplate markers
\* (page, copyright, draft, confidential, version, date, author) and whose merged
\* confidence is above 0.3.
FilterKeepsUnmarkedHeadings ==
    \A d \in 1..Len(documents_data) :
        LET detected == List(detect_headings(documents_data[d].analyzed_elements))
            kept == documents_data[d].headings
        IN  \A k \in 1..Len(detected) :
                (/\ Len(Strip(detected[k].text)) >= 3
                 /\ ~ReFullMatch(<< D1 >>, Strip(detected[k].text), FALSE)
                 /\ \A w \in boilerplate_words :
                        ~Contains(w, Lower(Strip(detected[k].text)))
                 /\ detected[k].confidence > 300)
                    => \E j \in 1..Len(kept) : kept[j] = detected[k]

\* C26: the section_title emitted for a ranked section whose heading text begins
\* with a numbering the detector recognises ("1 ", "1. ", "1.1 ", "1.1.1 ",
\* "1.1.1.1") begins with the first non-numbering word of the heading: no digit
\* or full stop of the numbering is left at its start.
NumberingStrippedFromTitle ==
    \A i \in 1..Len(extracted_sections) :
        LET text == top_sections[i].section_title
            title == extracted_sections[i].section_title
        IN  (\E p \in 1..Len(hierarchical_patterns) :
                 ReMatch(hierarchical_patterns[p], Strip(text), FALSE))
                => /\ title # ""
                   /\ ~IsDigit(Char(title, 1))
                   /\ Char(title, 1) # "."

\* the relevance score of a passage with the phrase bonuses of section scoring:
\* the two-word phrases of the persona and of the job that the passage holds
ScoreWithPhrases(text_lower, text_words, persona_string, job_string) ==
    SubsectionRelevanceFrom(
        Cardinality(text_words),
        Cardinality(_extract_keywords(persona_string) \cap text_words),
        Cardinality(_extract_keywords(job_string) \cap text_words),
        PhraseHits(_extract_keywords_from_text(persona_string), text_lower),
        PhraseHits(_extract_keywords_from_text(job_string), text_lower))

\* C27: in subsection scoring each multi-word persona phrase that appears
\* verbatim in the passage adds 0.1 and each multi-word job phrase adds 0.15 to
\* the relevance score of the passage, before the cap at 1.0.
SubsectionScoreCountsPhrases ==
    \A k \in 1..Len(subsection_analysis) :
        LET text_lower == Lower(subsection_analysis[k].refined_text)
        IN  REq(subsection_analysis[k].relevance_score,
                ScoreWithPhrases(text_lower, WordSet(text_lower),
                                 persona.text, job_to_be_done.text))

\* the refined texts of the paragraphs of a content that have at least n words
RefinedParagraphs(content, n) ==
    {_refine_text(p) : p \in SeqRange(WithWords(_split_into_paragraphs(content), n))}

\* the paragraphs of the i-th extracted section that pass the threshold
KeptParagraphs(i) ==
    Kept(ParagraphSubsections(FoundContent(i), Lower(persona.text),
                              Lower(job_to_be_done.text)))

\* the runs of sentences of the i-th extracted section that pass the threshold
KeptSentenceRuns(i) ==
    Kept(SentenceSubsections(FoundContent(i), Lower(persona.text),
                             Lower(job_to_be_done.text)))

\* C28: sentence accumulation runs only when paragraph splitting yields no
\* paragraph: whenever the content of a section yields at least one paragraph
\* (10 or more words), every subsection returned for it is a paragraph.
ParagraphsFoundNoSentenceRuns ==
    Called("subsections") =>
        \A i \in 1..Len(extracted_sections) :
            LET content == FoundContent(i)
                records == List(Contribution(i))
            IN  Len(_split_into_paragraphs(content)) > 0
                    => \A k \in 1..Len(records) :
                           records[k].refined_text \in RefinedParagraphs(content, 10)

\* the record is one of those of the extracted section
RecordOf(record, section) ==
    /\ record.document = section.document
    /\ record.section_title = section.section_title
    /\ record.page_number = section.page_number

\* C28 (amended): sentence accumulation runs only when no paragraph is kept:
\* whenever a paragraph of the content has 30 or more words and a relevance
\* score above 0.3, every subsection returned for the section is such a
\* paragraph.
ParagraphsKeptNoSentenceRuns ==
    Called("subsections") =>
        \A i \in 1..Len(extracted_sections) :
            LET paragraphs == List(KeptParagraphs(i))
            IN  (WordCount(FoundContent(i)) >= min_subsection_length
                 /\ Len(paragraphs) > 0)
                    => \A k \in 1..Len(subsection_analysis) :
                           RecordOf(subsection_analysis[k], extracted_sections[i])
                               => \E j \in 1..Len(paragraphs) :
                                      paragraphs[j].refined_text
                                          = subsection_analysis[k].refined_text

\* a section with a paragraph that is kept and a run of sentences that would
\* pass the threshold too, the records of the section being its paragraphs
KeptParagraphHidesSentenceRun ==
    /\ Called("subsections")
    /\ \E i \in 1..Len(extracted_sections) :
          LET content == FoundContent(i)
              runs == List(KeptSentenceRuns(i))
          IN  /\ WordCount(content) >= 30
              /\ Len(KeptParagraphs(i)) > 0
              /\ Len(Contribution(i)) > 0
              /\ \E k \in 1..Len(runs) :
                    runs[k].refined_text
                        \notin RefinedParagraphs(content, min_subsection_length)

\* the section was segmented from the d-th parsed document
SegmentedFrom(section, d) ==
    /\ documents_data[d].file_name = section.document
    /\ \E k \in 1..Len(_extract_document_sections(documents_data[d])) :
          LET own == _extract_document_sections(documents_data[d])[k]
          IN  /\ own.section_title = section.section_title
              /\ own.page_number = section.page_number
              /\ own.content = section.content

\* C29: every subsection_analysis record is drawn from the content of the
\* document its parent ranked section was segmented from, for every list of
\* input files, two paths of one file name in different directories included.
SubsectionsFromOwnDocument ==
    Called("subsections") =>
        \A k \in 1..Len(subsection_analysis) :
            \E i \in 1..Len(extracted_sections) :
                \E d \in 1..Len(documents_data) :
                    /\ SegmentedFrom(top_sections[i], d)
                    /\ subsection_analysis[k]
                          \in SeqRange(SectionSubsectionsIn(
                                  extracted_sections[i], documents_data, d,
                                  Lower(persona.text), Lower(job_to_be_done.text)))

\* the analyzed elements a heading was made of: those of its text and place
ElementsOf(heading, elements) ==
    {i \in 1..Len(elements) :
        /\ Strip(elements[i].text) = heading.text
        /\ elements[i].page = heading.page
        /\ elements[i].y_position = heading.y_position
        /\ elements[i].x_position = heading.x_position}

ScoreAlone(heading) == heading.detection_methods = << "score" >>

\* C30: every heading that survives filter_false_positives and was detected by
\* the score strategy alone has a heading_score strictly greater than 1.5; an
\* element whose heading_score is exactly 1.5 is no such heading.
ScoreAloneAboveThreshold ==
    \A d \in 1..Len(documents_data) :
        LET elements == documents_data[d].analyzed_elements
            kept == documents_data[d].headings
        IN  \A k \in 1..Len(kept) :
                ScoreAlone(kept[k]) =>
                    /\ ElementsOf(kept[k], elements) # {}
                    /\ \A i \in ElementsOf(kept[k], elements) :
                          elements[i].heading_score > min_heading_score

\* a parsed document with a heading that survived the filter and that the
\* score strategy alone found
ScoreAloneSurvivor ==
    \E d \in 1..Len(documents_data) :
        \E k \in 1..Len(documents_data[d].headings) :
            /\ ScoreAlone(documents_data[d].headings[k])
            /\ documents_data[d].headings[k].confidence > 300

====
